---- MODULE Spec2Model ----
(***************************************************************************)
(* A model of thesis_api: the directory scaffolder and include checker     *)
(* (tools/maintenance.py, class Maintainer), the template strings          *)
(* (tools/template_strings.py) and the result publisher                    *)
(* (dir_structure.py, class Chapter).                                      *)
(*                                                                         *)
(* Representation.  A Python str is a sequence of tokens; a token is a     *)
(* piece of text that no operation of the program looks into ("chapter",   *)
(* "1", ".", "tex", "\n", "\\input{", "}", "/").  String concatenation is  *)
(* \o.  A pathlib.Path is the sequence of its parts, each part a str.  A   *)
(* dict is the sequence of its <<key, value>> items in insertion order;    *)
(* the booleans True / False are the integers 1 / 0, as in Python.  The    *)
(* filesystem is the set of directories and a function from file paths to  *)
(* file contents.                                                          *)
(***************************************************************************)
EXTENDS Integers, Sequences, FiniteSets, TLC

VARIABLES
    thesis_dir,     \* Maintainer._thesis_dir
    dirs,           \* the directories on disk
    files,          \* the files on disk: path -> content
    counter,        \* Maintainer._counter
    op,             \* the operation that ran last
    pc,             \* position inside the running operation
    err,            \* the exception the operation raised, "" if none
    chapter,        \* the caller's chapter record (mutated by the call)
    sections,       \* the caller's list of section records
    subsections,    \* the caller's mapping section number -> subsection records
    L,              \* the local variables of init_chapter_dir
    args,           \* history: the arguments as they were passed
    fig_desc,       \* the caller's figure description (mutated by save_fig)
    latex_args,     \* the caller's latex_args (mutated by save_tab)
    latex_default,  \* the default value of save_tab's latex_args parameter
    rendered        \* the string the last substitute call returned

pubVars == <<fig_desc, latex_args, latex_default, rendered>>

vars == <<thesis_dir, dirs, files, counter, op, pc, err,
          chapter, sections, subsections, L, args, pubVars>>

---------------------------------------------------------------------------
(* Bounds *)

MaxSections == 2
MaxSubsections == 1

---------------------------------------------------------------------------
(* Python built-ins *)

\* str(n) for the integers that occur as identifiers
Str(n) ==
    CASE n = 0 -> <<"0">>
      [] n = 1 -> <<"1">>
      [] n = 2 -> <<"2">>
      [] n = 3 -> <<"3">>
      [] n = 10 -> <<"10">>

\* key in d
HasKey(d, k) == \E i \in 1..Len(d) : d[i][1] = k

\* d.pop(k, default): the value returned
PopValue(d, k, default) ==
    IF HasKey(d, k)
    THEN d[CHOOSE i \in 1..Len(d) : d[i][1] = k][2]
    ELSE default

\* as PopRest, but the value is read with d.get(k, default) and the key stays
PopRest_get(d, k) == d

\* d.pop(k, default): the dict left behind
PopRest(d, k) == SelectSeq(d, LAMBDA kv : kv[1] # k)

\* as FirstKey, but the last key of the dict
FirstKey_last(d) == d[Len(d)][1]

\* next(iter(d)): the first key of a (non-empty) dict
FirstKey(d) == d[1][1]

\* needle in haystack, for strings
Contains(haystack, needle) ==
    \E i \in 0..(Len(haystack) - Len(needle)) :
        SubSeq(haystack, i + 1, i + Len(needle)) = needle

\* "/".join(parts)
RECURSIVE JoinSlash(_)
JoinSlash(parts) ==
    IF Len(parts) = 0 THEN <<>>
    ELSE IF Len(parts) = 1 THEN parts[1]
    ELSE parts[1] \o <<"/">> \o JoinSlash(Tail(parts))

\* pathlib.Path(s).parts for a relative path string: split at "/",
\* empty components dropped
RECURSIVE SplitSlash(_, _)
SplitSlash(s, cur) ==
    IF Len(s) = 0 THEN (IF cur = <<>> THEN <<>> ELSE <<cur>>)
    ELSE IF Head(s) = "/"
         THEN (IF cur = <<>> THEN <<>> ELSE <<cur>>) \o SplitSlash(Tail(s), <<>>)
         ELSE SplitSlash(Tail(s), Append(cur, Head(s)))

PathOf(s) == SplitSlash(s, <<>>)

---------------------------------------------------------------------------
(* The filesystem *)

Prefixes(p) == { SubSeq(p, 1, k) : k \in 1..Len(p) }

Exists(d, f, p) == p \in d \/ p \in DOMAIN f

\* q lies below p
Under(p, q) == Len(q) > Len(p) /\ SubSeq(q, 1, Len(p)) = p

Parent(p) == SubSeq(p, 1, Len(p) - 1)

Children(d, f, p) ==
    { q \in d \cup DOMAIN f : Len(q) = Len(p) + 1 /\ SubSeq(q, 1, Len(p)) = p }

\* as Mkdir, but an existing directory is never an error
Mkdir_exist_ok(d, f, p, exist_ok) ==
    IF p \in d
    THEN [dirs |-> d, err |-> ""]
    ELSE IF p \in DOMAIN f
         THEN [dirs |-> d, err |-> "FileExistsError"]
         ELSE [dirs |-> d \cup Prefixes(p), err |-> ""]

\* Path.mkdir(parents=True, exist_ok=...): the directories afterwards and
\* the exception raised
Mkdir(d, f, p, exist_ok) ==
    IF p \in d
    THEN [dirs |-> d, err |-> IF exist_ok THEN "" ELSE "FileExistsError"]
    ELSE IF p \in DOMAIN f
         THEN [dirs |-> d, err |-> "FileExistsError"]
         ELSE [dirs |-> d \cup Prefixes(p), err |-> ""]

\* Path.write_text(temp)
WriteText(f, p, temp) == (p :> temp) @@ f

---------------------------------------------------------------------------
(* tools/template_strings.py *)

TEX_FILE == <<".", "tex">>

\* LATEX_CONFIG_DIC["tex_file"] in path.parts[-1]
IsTex(p) == Contains(p[Len(p)], TEX_FILE)

EqChapters(part) == part = <<"chapters">>

\* str(path) on a POSIX system
StrPath(parts) ==
    IF Len(parts) > 0 /\ parts[1] = <<"/">>
    THEN <<"/">> \o JoinSlash(Tail(parts))
    ELSE JoinSlash(parts)

\* as reformat_path, but the path starts after the "chapters" part
reformat_path_after(parts) ==
    IF \E i \in 1..Len(parts) : EqChapters(parts[i])
    THEN LET i == CHOOSE k \in 1..Len(parts) :
                      /\ EqChapters(parts[k])
                      /\ \A m \in 1..(k - 1) : ~EqChapters(parts[m])
         IN  JoinSlash(SubSeq(parts, i + 1, Len(parts)))
    ELSE StrPath(parts)

reformat_path(parts) ==
    IF \E i \in 1..Len(parts) : EqChapters(parts[i])
    THEN LET i == CHOOSE k \in 1..Len(parts) :
                      /\ EqChapters(parts[k])
                      /\ \A m \in 1..(k - 1) : ~EqChapters(parts[m])
         IN  JoinSlash(SubSeq(parts, i, Len(parts)))
    ELSE StrPath(parts)

InputTemplate(path) ==
    <<"\n", "\\input{">> \o reformat_path(path) \o <<"}", "\n">>

ChapterTemplate(title, label) ==
    <<"% !TEX root = ../../main.tex", "\n", "\n", "\\chapter{">> \o title
    \o <<"}", "\n", "\\label{cha:">> \o label
    \o <<"}", "\n", "\n", "This is a chapter.", "\n">>

SectionTemplate(title, label) ==
    <<"\\section{">> \o title \o <<"}", "\n", "\\label{sec:">> \o label
    \o <<"}", "\n", "\n", "This is a section within a chapter.", "\n">>

SubsectionTemplate(title, label) ==
    <<"\\subsection{">> \o title \o <<"}", "\n", "\\label{subsec:">> \o label
    \o <<"}", "\n", "\n", "This is a subsection within a section.", "\n">>

---------------------------------------------------------------------------
(* tools/maintenance.py *)

\* the tokens that end in "input{"
EndsWithInput(tok) == tok = "\\input{"

\* PATTERN = "(?<=input{).*?(?=})": the end of the match that starts after
\* position i, 0 if a newline comes before the closing brace or there is none
RECURSIVE MatchEnd(_, _)
MatchEnd(text, j) ==
    IF j > Len(text) THEN 0
    ELSE IF text[j] = "}" THEN j
    ELSE IF text[j] = "\n" THEN 0
    ELSE MatchEnd(text, j + 1)

\* find_input: the paths in the input statements of a text, in order
RECURSIVE FindFrom(_, _)
FindFrom(text, i) ==
    IF i > Len(text) THEN <<>>
    ELSE IF EndsWithInput(text[i]) /\ MatchEnd(text, i + 1) # 0
         THEN LET j == MatchEnd(text, i + 1)
              IN  <<PathOf(SubSeq(text, i + 1, j - 1))>> \o FindFrom(text, j)
         ELSE FindFrom(text, i + 1)

find_input(text) == FindFrom(text, 1)

\* as Broken, but the targets are resolved against the chapters directory
Broken_in_chapters(d, f, root, text) ==
    LET inps == find_input(text)
    IN  Cardinality({ i \in 1..Len(inps) :
                        ~Exists(d, f, Append(root, <<"chapters">>) \o inps[i]) })

\* the number of input statements of a text whose target does not exist
Broken(d, f, root, text) ==
    LET inps == find_input(text)
    IN  Cardinality({ i \in 1..Len(inps) : ~Exists(d, f, root \o inps[i]) })

\* check_inputs(child): the increase of the counter.  todo holds the
\* entries still to visit, as the recursion over iterdir() does.
RECURSIVE Scan(_, _, _, _, _)
Scan(d, f, root, todo, acc) ==
    IF todo = {} THEN acc
    ELSE LET c == CHOOSE x \in todo : TRUE
             rest == todo \ {c}
         IN  IF c \in d
             THEN Scan(d, f, root, rest \cup Children(d, f, c), acc)
             ELSE IF Contains(c[Len(c)], TEX_FILE)
                  THEN Scan(d, f, root, rest, acc + Broken(d, f, root, f[c]))
                  ELSE Scan(d, f, root, rest, acc)

check_inputs(d, f, root, child) == Scan(d, f, root, Children(d, f, child), 0)

\* as create_ftc, but the value of a key is not looked at
RECURSIVE create_ftc_all(_, _, _, _)
create_ftc_all(d, f, path, typ) ==
    IF Len(typ) = 0 THEN d
    ELSE LET temp_path == Append(path, <<typ[1][1]>>)
         IN  create_ftc_all(Mkdir(d, f, temp_path, FALSE).dirs, f, path,
                            Tail(typ))

\* create_ftc(path, typ): the directories afterwards
RECURSIVE create_ftc(_, _, _, _)
create_ftc(d, f, path, typ) ==
    IF Len(typ) = 0 THEN d
    ELSE LET k == typ[1][1]
             v == typ[1][2]
             temp_path == Append(path, <<k>>)
             d1 == IF v # 0 THEN Mkdir(d, f, temp_path, FALSE).dirs ELSE d
         IN  create_ftc(d1, f, path, Tail(typ))

\* tex_file(path, temp): the files afterwards
tex_file(d, f, path, temp) ==
    IF ~Exists(d, f, path) THEN WriteText(f, path, temp) ELSE f

---------------------------------------------------------------------------
(* Maintainer.init_chapter_dir, step by step.  A frame F holds what a step  *)
(* reads and writes: the root, the disk, the caller's records, the locals.  *)

NoLocals ==
    [chapter_ |-> <<>>, num_sections |-> 0, chapter_template_str |-> <<>>,
     i |-> 0, sec_ |-> <<>>, sec_num |-> <<>>, num_subsections |-> 0,
     sec_template_str |-> <<>>, j |-> 0]

chapter_dir(root) == Append(root, <<"chapters">>)
chapter_path(F) == Append(chapter_dir(F.root), F.L.chapter_)
chapter_file(F) == Append(chapter_path(F), F.L.chapter_ \o TEX_FILE)
sec_path(F) == Append(chapter_path(F), <<"sections">>)
sec_dir(F) == Append(sec_path(F), F.L.sec_)
sec_file(F) == Append(sec_dir(F), F.L.sec_ \o TEX_FILE)
subsec_path(F) == Append(sec_dir(F), <<"subsections">>)

Raise(F, e) == [F EXCEPT !.pc = "failed", !.err = e]

\* as SectionCountOk, but the assertion is compiled away
SectionCountOk_off(num_sections, secs) == TRUE

\* lines 271-273: assert num_sections == len(sections)
SectionCountOk(num_sections, secs) == num_sections = Len(secs)

\* lines 297-299: assert num_subsections == len(subsections[sec_num])
SubsectionCountOk(num_subsections, subsecs) == num_subsections = Len(subsecs)

\* lines 165-174: Maintainer.create_subfolder(data): the record afterwards
\* and the exception raised.  The first key and "num_sections" are popped;
\* the loop over the two count fields ends after its first pop.
create_subfolder(data) ==
    IF Len(data) = 0 THEN [data |-> data, err |-> "StopIteration"]
    ELSE [data |-> PopRest(PopRest(data, FirstKey(data)), "num_sections"),
          err |-> ""]

\* lines 262-291: read the chapter record, check the number of sections,
\* make the chapter directory, its figs/tabs/code folders and "sections"
Start(F) ==
    IF Len(F.chapter) = 0 THEN Raise(F, "StopIteration")
    ELSE
    LET chapter_type == <<FirstKey(F.chapter)>>
        chapter_num == Str(PopValue(F.chapter, "chapter", 10))
        chapter_ == chapter_type \o chapter_num
        ch1 == PopRest(F.chapter, "chapter")
        num_sections == PopValue(ch1, "num_sections", 0)
        ch2 == PopRest(ch1, "num_sections")
        F1 == [F EXCEPT !.chapter = ch2,
                        !.L = [NoLocals EXCEPT !.chapter_ = chapter_,
                                               !.num_sections = num_sections]]
    IN  IF ~SectionCountOk(num_sections, F.sections)
        THEN Raise(F1, "AssertionError")
        ELSE
        LET mk == Mkdir(F1.dirs, F1.files, chapter_path(F1), FALSE)
        IN  IF mk.err # "" THEN Raise(F1, mk.err)
            ELSE
            LET d2 == create_ftc(mk.dirs, F1.files, chapter_path(F1), ch2)
                F2 == [F1 EXCEPT !.dirs = d2,
                                 !.L.chapter_template_str =
                                     ChapterTemplate(chapter_, chapter_)]
            IN  IF num_sections # 0
                THEN LET mk2 == Mkdir(d2, F2.files, sec_path(F2), TRUE)
                     IN  IF mk2.err # "" THEN Raise(F2, mk2.err)
                         ELSE IF Len(F.sections) = 0
                              THEN [F2 EXCEPT !.dirs = mk2.dirs,
                                              !.pc = "chapter_file"]
                              ELSE [F2 EXCEPT !.dirs = mk2.dirs, !.L.i = 1,
                                              !.pc = "section"]
                ELSE [F2 EXCEPT !.pc = "chapter_file"]

\* lines 293-314: read the i-th section record, check the number of
\* subsections, make the section directory and its folders, add the input
\* statement of the section file to the chapter text
Section(F) ==
    LET section == F.sections[F.L.i]
    IN
    IF Len(section) = 0 THEN Raise(F, "StopIteration")
    ELSE
    LET sec_type == <<FirstKey(section)>>
        n == PopValue(section, "section", 10)
        sec_num == Str(n)
        sec_ == sec_type \o sec_num
        s1 == PopRest(section, "section")
        num_subsections == PopValue(s1, "num_subsections", 10)
        s2 == PopRest(s1, "num_subsections")
        F1 == [F EXCEPT !.sections[F.L.i] = s2,
                        !.L.sec_ = sec_, !.L.sec_num = sec_num,
                        !.L.num_subsections = num_subsections]
    IN  IF sec_num \notin DOMAIN F.subsections THEN Raise(F1, "KeyError")
        ELSE IF ~SubsectionCountOk(num_subsections, F.subsections[sec_num])
        THEN Raise(F1, "AssertionError")
        ELSE
        LET mk == Mkdir(F1.dirs, F1.files, sec_dir(F1), TRUE)
        IN  IF mk.err # "" THEN Raise(F1, mk.err)
            ELSE
            LET title == F1.L.chapter_ \o <<"-">> \o sec_
                d2 == create_ftc(mk.dirs, F1.files, sec_dir(F1), s2)
                F2 == [F1 EXCEPT
                         !.dirs = d2,
                         !.L.sec_template_str = SectionTemplate(title, title),
                         !.L.chapter_template_str =
                             @ \o InputTemplate(sec_file(F1))]
            IN  IF num_subsections # 0
                THEN LET mk2 == Mkdir(d2, F2.files, subsec_path(F2), TRUE)
                     IN  IF mk2.err # "" THEN Raise(F2, mk2.err)
                         ELSE IF Len(F.subsections[sec_num]) = 0
                              THEN [F2 EXCEPT !.dirs = mk2.dirs,
                                              !.pc = "section_file"]
                              ELSE [F2 EXCEPT !.dirs = mk2.dirs, !.L.j = 1,
                                              !.pc = "subsection"]
                ELSE [F2 EXCEPT !.pc = "section_file"]

\* lines 316-336: read the j-th subsection record of the section, make its
\* directory, write its file, make its folders, add its input statement to
\* the section text
Subsection(F) ==
    LET subsection == F.subsections[F.L.sec_num][F.L.j]
    IN
    IF Len(subsection) = 0 THEN Raise(F, "StopIteration")
    ELSE
    LET subsec_type == <<FirstKey(subsection)>>
        subsec_num == Str(PopValue(subsection, "subsection", 10))
        subsec_ == subsec_type \o subsec_num
        s1 == PopRest(subsection, "subsection")
        F1 == [F EXCEPT !.subsections[F.L.sec_num][F.L.j] = s1]
        subsec_dir == Append(subsec_path(F1), subsec_)
        subsec_file == Append(subsec_dir, subsec_ \o TEX_FILE)
        mk == Mkdir(F1.dirs, F1.files, subsec_dir, TRUE)
    IN  IF mk.err # "" THEN Raise(F1, mk.err)
        ELSE
        LET title == F1.L.chapter_ \o <<"-">> \o F1.L.sec_ \o <<"-">> \o subsec_
            f2 == tex_file(mk.dirs, F1.files, subsec_file,
                           SubsectionTemplate(title, title))
            d2 == create_ftc(mk.dirs, f2, subsec_dir, s1)
            F2 == [F1 EXCEPT !.dirs = d2, !.files = f2,
                             !.L.sec_template_str =
                                 @ \o InputTemplate(subsec_file)]
        IN  IF F.L.j < Len(F.subsections[F.L.sec_num])
            THEN [F2 EXCEPT !.L.j = @ + 1]
            ELSE [F2 EXCEPT !.pc = "section_file"]

\* as SectionFile, but the chapter file is written along with the section file
SectionFile_with_chapter(F) ==
    LET f2 == tex_file(F.dirs, F.files, sec_file(F), F.L.sec_template_str)
        f3 == tex_file(F.dirs, f2, chapter_file(F), F.L.chapter_template_str)
        F2 == [F EXCEPT !.files = f3]
    IN  IF F.L.i < Len(F.sections)
        THEN [F2 EXCEPT !.L.i = @ + 1, !.pc = "section"]
        ELSE [F2 EXCEPT !.pc = "chapter_file"]

\* line 340: write the section file, go on to the next section
SectionFile(F) ==
    LET f2 == tex_file(F.dirs, F.files, sec_file(F), F.L.sec_template_str)
        F2 == [F EXCEPT !.files = f2]
    IN  IF F.L.i < Len(F.sections)
        THEN [F2 EXCEPT !.L.i = @ + 1, !.pc = "section"]
        ELSE [F2 EXCEPT !.pc = "chapter_file"]

\* line 345: write the chapter file
ChapterFile(F) ==
    [F EXCEPT !.files = tex_file(F.dirs, F.files, chapter_file(F),
                                 F.L.chapter_template_str),
              !.pc = "done"]

\* as InitStep, but the section file is not written
InitStep_no_section_file(F) ==
    CASE F.pc = "start" -> Start(F)
      [] F.pc = "section" -> Section(F)
      [] F.pc = "subsection" -> Subsection(F)
      [] F.pc = "section_file" -> [SectionFile(F) EXCEPT !.files = F.files]
      [] F.pc = "chapter_file" -> ChapterFile(F)

\* as InitStep, but the chapter file is written as soon as the input
\* statement of a section is added to its text
InitStep_eager_chapter_file(F) ==
    CASE F.pc = "start" -> Start(F)
      [] F.pc = "section" ->
            LET G == Section(F)
            IN  IF G.pc = "failed" THEN G
                ELSE [G EXCEPT !.files =
                        WriteText(G.files, chapter_file(G),
                                  G.L.chapter_template_str)]
      [] F.pc = "subsection" -> Subsection(F)
      [] F.pc = "section_file" -> SectionFile(F)
      [] F.pc = "chapter_file" ->
            [F EXCEPT !.files = WriteText(F.files, chapter_file(F),
                                          F.L.chapter_template_str),
                      !.pc = "done"]

\* one step of a running init_chapter_dir
InitStep(F) ==
    CASE F.pc = "start" -> Start(F)
      [] F.pc = "section" -> Section(F)
      [] F.pc = "subsection" -> Subsection(F)
      [] F.pc = "section_file" -> SectionFile(F)
      [] F.pc = "chapter_file" -> ChapterFile(F)

\* init_chapter_dir run to its end
RECURSIVE RunInit(_)
RunInit(F) == IF F.pc \in {"done", "failed"} THEN F ELSE RunInit(InitStep(F))

---------------------------------------------------------------------------
(* The arguments a caller passes to init_chapter_dir *)

Roots == { << <<"tests">>, <<"data">> >>,
           << <<"/">>, <<"home">>, <<"thesis">> >> }

ChapterIds == {1}
SectionIds == {1, 2}

Ftc(a, b, c) == << <<"figs", a>>, <<"tabs", b>>, <<"code", c>> >>

ChapterRecs ==
    { << <<"chapter", n>>, <<"num_sections", k>> >> \o t :
        n \in ChapterIds, k \in 0..MaxSections,
        t \in {Ftc(0, 0, 0), Ftc(1, 0, 1)} }

SectionRecs ==
    { << <<"section", n>>, <<"num_subsections", k>> >> \o t :
        n \in SectionIds, k \in 0..MaxSubsections,
        t \in {Ftc(0, 0, 0), Ftc(1, 0, 0)} }

SubsectionRecs ==
    { << <<"subsection", n>> >> \o t :
        n \in 1..MaxSubsections, t \in {Ftc(0, 1, 0)} }

SectionLists == UNION { [1..k -> SectionRecs] : k \in 0..MaxSections }

SubsectionLists == UNION { [1..k -> SubsectionRecs] : k \in 0..MaxSubsections }

SubsectionMaps ==
    UNION { [K -> SubsectionLists] : K \in SUBSET { Str(n) : n \in SectionIds } }

NoArgs == [chapter |-> <<>>, sections |-> <<>>, subsections |-> <<>>,
           dirs |-> {}, files |-> <<>>]

---------------------------------------------------------------------------
(* The scaffolder and the include checker as a state machine *)

Frame ==
    [root |-> thesis_dir, dirs |-> dirs, files |-> files, chapter |-> chapter,
     sections |-> sections, subsections |-> subsections, L |-> L,
     pc |-> pc, err |-> err]

Apply(F) ==
    \E G \in {F} :
        /\ dirs' = G.dirs
        /\ files' = G.files
        /\ chapter' = G.chapter
        /\ sections' = G.sections
        /\ subsections' = G.subsections
        /\ L' = G.L
        /\ pc' = G.pc
        /\ err' = G.err

\* the name init_chapter_dir gives the chapter directory of a chapter record
ChapterName(ch) == <<FirstKey(ch)>> \o Str(PopValue(ch, "chapter", 10))

Init ==
    /\ thesis_dir \in Roots
    /\ dirs = Prefixes(thesis_dir)
    /\ files = <<>>
    /\ counter = 0
    /\ op = ""
    /\ pc = "idle"
    /\ err = ""
    /\ chapter = <<>>
    /\ sections = <<>>
    /\ subsections = <<>>
    /\ L = NoLocals
    /\ args = NoArgs
    /\ fig_desc = <<>>
    /\ latex_args = <<>>
    /\ latex_default = <<>>
    /\ rendered = <<>>

\* init_chapter_dir(ch, secs, subs) is called and runs up to the section loop
Enter(ch, secs, subs) ==
    /\ args' = [chapter |-> ch, sections |-> secs, subsections |-> subs,
                dirs |-> dirs, files |-> files]
    /\ Apply(InitStep([Frame EXCEPT !.chapter = ch, !.sections = secs,
                                    !.subsections = subs, !.L = NoLocals,
                                    !.pc = "start", !.err = ""]))
    /\ op' = "init_chapter_dir"
    /\ UNCHANGED <<thesis_dir, counter, pubVars>>

\* the first call, on the empty thesis directory
CallInit ==
    /\ pc = "idle"
    /\ \E ch \in ChapterRecs, secs \in SectionLists, subs \in SubsectionMaps :
          Enter(ch, secs, subs)

\* a later call: fresh copies of the chapter record passed before, of the
\* sections passed before or of no sections, and of the subsections passed
\* before
CallAgain ==
    /\ pc \in {"done", "failed"}
    /\ \E secs \in {args.sections, <<>>} :
          Enter(args.chapter, secs, args.subsections)

SectionStep ==
    /\ pc = "section"
    /\ Apply(InitStep(Frame))
    /\ UNCHANGED <<thesis_dir, counter, op, args, pubVars>>

SubsectionStep ==
    /\ pc = "subsection"
    /\ Apply(InitStep(Frame))
    /\ UNCHANGED <<thesis_dir, counter, op, args, pubVars>>

SectionFileStep ==
    /\ pc = "section_file"
    /\ Apply(InitStep(Frame))
    /\ UNCHANGED <<thesis_dir, counter, op, args, pubVars>>

ChapterFileStep ==
    /\ pc = "chapter_file"
    /\ Apply(InitStep(Frame))
    /\ UNCHANGED <<thesis_dir, counter, op, args, pubVars>>

\* Maintainer.check_inputs(thesis_dir)
CheckInputs ==
    /\ pc \in {"done", "failed"}
    /\ counter' = counter + check_inputs(dirs, files, thesis_dir, thesis_dir)
    /\ op' = "check_inputs"
    /\ pc' = "done"
    /\ err' = ""
    /\ UNCHANGED <<thesis_dir, dirs, files, chapter, sections, subsections,
                   L, args, pubVars>>

\* records whose identifier is not the first field
NamedChapterRecs ==
    { << <<"chapter", 1>>, <<"num_sections", 0>> >> }
    \cup UNION { { << <<"chapter", 1>>, <<"num_sections", k>> >> \o Ftc(1, 0, 0),
                   << <<"num_sections", k>>, <<"chapter", 1>> >> \o Ftc(1, 0, 0),
                   << <<"figs", 1>>, <<"chapter", 1>>, <<"num_sections", k>>,
                      <<"tabs", 0>> >> } : k \in 0..MaxSections }

NamedSectionRecs ==
    UNION { { << <<"section", 1>>, <<"num_subsections", k>> >> \o Ftc(0, 0, 0),
              << <<"tabs", 1>>, <<"section", 1>>, <<"num_subsections", k>> >> } :
            k \in 0..MaxSubsections }

NamedSubsectionRecs ==
    { << <<"subsection", 1>> >> \o Ftc(0, 1, 0),
      << <<"code", 1>>, <<"subsection", 1>> >> }

NamedSectionLists == UNION { [1..k -> NamedSectionRecs] : k \in 0..MaxSections }

NamedSubsectionMaps ==
    { <<>> } \cup
    { (<<"1">> :> l) :
        l \in UNION { [1..k -> NamedSubsectionRecs] : k \in 0..MaxSubsections } }

\* Maintainer.create_subfolder(data), with a record written for the call
\* or with the chapter record as the last call left it
CreateSubfolder ==
    /\ pc \in {"idle", "done", "failed"}
    /\ \E data \in (IF pc = "idle" THEN ChapterRecs \cup NamedChapterRecs
                     ELSE {chapter}) :
       \E R \in {create_subfolder(data)} :
          /\ chapter' = R.data
          /\ err' = R.err
          /\ pc' = IF R.err = "" THEN "done" ELSE "failed"
          /\ args' = [chapter |-> data, sections |-> sections,
                      subsections |-> subsections, dirs |-> dirs,
                      files |-> files]
    /\ op' = "create_subfolder"
    /\ UNCHANGED <<thesis_dir, dirs, files, counter, sections, subsections,
                   L, pubVars>>

\* a later call with the very records the caller holds, as the last call
\* left them; after create_subfolder on a new record also with one section
CallConsumed ==
    /\ pc \in {"done", "failed"}
    /\ \E secs \in {sections} \cup
                    (IF op = "create_subfolder" /\ Len(sections) = 0
                     THEN { l \in SectionLists \cup NamedSectionLists : Len(l) = 1 }
                     ELSE {}) :
          Enter(chapter, secs, subsections)

Next ==
    \/ CallInit
    \/ CallAgain
    \/ SectionStep
    \/ SubsectionStep
    \/ SectionFileStep
    \/ ChapterFileStep
    \/ CheckInputs

Spec == Init /\ [][Next]_vars

---------------------------------------------------------------------------
(* Properties of the scaffolder and the include checker *)

\* every input statement of the .tex files below top names something on disk
Resolves(d, f, root, top) ==
    \A p \in DOMAIN f :
        (IsTex(p) /\ Under(top, p)) =>
            LET inps == find_input(f[p])
            IN  \A i \in 1..Len(inps) : Exists(d, f, root \o inps[i])

SectionKey(sec) == Str(PopValue(sec, "section", 10))

\* the records follow the docstring of init_chapter_dir: identifier first,
\* distinct identifiers, counts that match
ValidSpec(a) ==
    /\ Len(a.chapter) > 0
    /\ FirstKey(a.chapter) = "chapter"
    /\ PopValue(a.chapter, "num_sections", 0) = Len(a.sections)
    /\ \A i \in 1..Len(a.sections) :
        /\ FirstKey(a.sections[i]) = "section"
        /\ SectionKey(a.sections[i]) \in DOMAIN a.subsections
        /\ PopValue(a.sections[i], "num_subsections", 10)
              = Len(a.subsections[SectionKey(a.sections[i])])
        /\ \A j \in 1..Len(a.sections) :
              i # j => SectionKey(a.sections[i]) # SectionKey(a.sections[j])
        /\ LET subs == a.subsections[SectionKey(a.sections[i])]
           IN  \A j, k \in 1..Len(subs) :
                 /\ FirstKey(subs[j]) = "subsection"
                 /\ j # k => PopValue(subs[j], "subsection", 10)
                               # PopValue(subs[k], "subsection", 10)

RECURSIVE TotalSubsections(_, _)
TotalSubsections(a, i) ==
    IF i > Len(a.sections) THEN 0
    ELSE a.sections[i][2][2] + TotalSubsections(a, i + 1)

ArgsChapterPath == Append(chapter_dir(thesis_dir), ChapterName(args.chapter))

Completed == op = "init_chapter_dir" /\ pc = "done"

\* C1: after init_chapter_dir has completed on a valid spec with matching
\* counts, every \input target of every .tex file under the chapters
\* directory, resolved against the thesis root, exists on disk.
C1_InputsResolve ==
    (Completed /\ ValidSpec(args)) =>
        Resolves(dirs, files, thesis_dir, chapter_dir(thesis_dir))

C1_Witness ==
    /\ Completed /\ ValidSpec(args)
    /\ Len(args.sections) = 2
    /\ \E p \in DOMAIN files :
          /\ Len(find_input(files[p])) = 2
    /\ \E p \in DOMAIN files :
          /\ <<"sections">> \in {p[k] : k \in 1..Len(p)}
          /\ Len(find_input(files[p])) > 0

\* C2: after init_chapter_dir has completed on a valid spec with matching
\* counts, the files it wrote are 1 + #sections + #subsections .tex files,
\* each alone in a directory of its own that bears its name.
C2_OneFilePerUnit ==
    (Completed /\ ValidSpec(args)) =>
        LET written == DOMAIN files \ DOMAIN args.files
        IN  /\ Cardinality(written)
                 = 1 + Len(args.sections) + TotalSubsections(args, 1)
            /\ \A p \in written :
                 /\ IsTex(p)
                 /\ p[Len(p)] = Parent(p)[Len(p) - 1] \o TEX_FILE
                 /\ Children(dirs, files, Parent(p)) \cap DOMAIN files = {p}
                 /\ Parent(p) \notin args.dirs

C2_Witness ==
    /\ Completed /\ ValidSpec(args)
    /\ Len(args.sections) = 2
    /\ TotalSubsections(args, 1) >= 1
    /\ Cardinality(DOMAIN files) >= 4

\* C3: check_inputs over the thesis root of a freshly scaffolded tree leaves
\* the counter of broken references at 0.
C3_FreshTreeCountsZero ==
    op = "check_inputs" => counter = 0

C3_Witness ==
    /\ op = "check_inputs"
    /\ counter = 0
    /\ Append(ArgsChapterPath, ChapterName(args.chapter) \o TEX_FILE)
          \in DOMAIN files
    /\ \E p \in DOMAIN files :
          /\ <<"sections">> \in {p[k] : k \in 1..Len(p)}
          /\ Len(find_input(files[p])) > 0

\* C4: a call of init_chapter_dir for a chapter whose directory exists
\* fails, and leaves the directories, the files and their contents as they
\* were.
C4_RerunFails ==
    (op = "init_chapter_dir" /\ ArgsChapterPath \in args.dirs) =>
        /\ pc = "failed"
        /\ err # ""
        /\ dirs = args.dirs
        /\ files = args.files

C4_Witness ==
    /\ op = "init_chapter_dir"
    /\ ArgsChapterPath \in args.dirs
    /\ pc = "failed"
    /\ err = "FileExistsError"
    /\ Cardinality(DOMAIN files) >= 3
    /\ files = args.files

ExampleChapter ==
    << <<"chapter", 1>>, <<"num_sections", 1>> >> \o Ftc(0, 0, 0)

ExampleSection ==
    << <<"section", 1>>, <<"num_subsections", 0>> >> \o Ftc(1, 0, 0)

ExampleCall ==
    /\ op = "init_chapter_dir"
    /\ args.chapter = ExampleChapter
    /\ args.sections = <<ExampleSection>>
    /\ DOMAIN args.subsections = {}
    /\ args.dirs = Prefixes(thesis_dir)

\* C5: the call with chapter {chapter:1, num_sections:1, no folders}, one
\* section {section:1, num_subsections:0, figs} and an empty subsections
\* mapping completes and leaves chapters/chapter1/chapter1.tex with an
\* \input{chapters/chapter1/sections/section1/section1.tex} line, that
\* section file, and a figs folder beside it.
C5_ExampleSucceeds ==
    (ExampleCall /\ pc \in {"done", "failed"}) =>
        LET ch == Append(chapter_dir(thesis_dir), <<"chapter", "1">>)
            sec == ch \o << <<"sections">>, <<"section", "1">> >>
            chf == Append(ch, <<"chapter", "1", ".", "tex">>)
            secf == Append(sec, <<"section", "1", ".", "tex">>)
        IN  /\ pc = "done"
            /\ chf \in DOMAIN files
            /\ Contains(files[chf],
                 <<"\n", "\\input{", "chapters", "/", "chapter", "1", "/",
                   "sections", "/", "section", "1", "/", "section", "1",
                   ".", "tex", "}", "\n">>)
            /\ secf \in DOMAIN files
            /\ Append(sec, <<"figs">>) \in dirs

\* C6: in every state of a run of init_chapter_dir, each .tex file on disk
\* names in its input statements only files that are on disk already.
C6_NoDanglingEver ==
    Resolves(dirs, files, thesis_dir, thesis_dir)

C6_Witness ==
    /\ op = "init_chapter_dir"
    /\ pc = "section"
    /\ L.i = 2
    /\ Append(sec_dir(Frame), L.sec_ \o TEX_FILE) \in DOMAIN files
    /\ Len(find_input(files[Append(sec_dir(Frame), L.sec_ \o TEX_FILE)])) > 0
    /\ chapter_file(Frame) \notin DOMAIN files

\* C9: when num_sections differs from the number of section records, the
\* call fails on the assertion and the disk is as it was at the call.
C9_SectionMismatchTouchesNothing ==
    (op = "init_chapter_dir"
       /\ PopValue(args.chapter, "num_sections", 0) # Len(args.sections)) =>
        /\ pc = "failed"
        /\ err = "AssertionError"
        /\ dirs = args.dirs
        /\ files = args.files

C9_Witness ==
    /\ op = "init_chapter_dir"
    /\ PopValue(args.chapter, "num_sections", 0) = 2
    /\ Len(args.sections) = 1
    /\ ArgsChapterPath \notin dirs
    /\ pc = "failed"
    /\ err = "AssertionError"

---------------------------------------------------------------------------
(* Maintainer.create_ftc called on its own, as tests/test_maintenance.py    *)
(* does                                                                     *)

FtcTypes == { Ftc(a, b, c) : a, b, c \in {0, 1} }

FtcPaths(root) ==
    { chapter_dir(root), Append(chapter_dir(root), <<"chapter", "1">>) }

InitFtc ==
    /\ thesis_dir \in Roots
    /\ dirs = Prefixes(thesis_dir)
    /\ files = <<>>
    /\ counter = 0
    /\ op = ""
    /\ pc = "idle"
    /\ err = ""
    /\ chapter = <<>>
    /\ sections = <<>>
    /\ subsections = <<>>
    /\ L = NoLocals
    /\ args = NoArgs
    /\ fig_desc = <<>>
    /\ latex_args = <<>>
    /\ latex_default = <<>>
    /\ rendered = <<>>

\* create_ftc(path, typ)
CreateFtc ==
    /\ \E path \in FtcPaths(thesis_dir), typ \in FtcTypes :
        /\ args' = [path |-> path, typ |-> typ, dirs |-> dirs, files |-> files]
        /\ dirs' = create_ftc(dirs, files, path, typ)
    /\ op' = "create_ftc"
    /\ pc' = "done"
    /\ err' = ""
    /\ UNCHANGED <<thesis_dir, files, counter, chapter, sections, subsections,
                   L, pubVars>>

\* shutil.rmtree(f) of a figs/tabs/code folder, as the test does between calls
RemoveFtc ==
    /\ \E path \in FtcPaths(thesis_dir), k \in {"figs", "tabs", "code"} :
        /\ Append(path, <<k>>) \in dirs
        /\ dirs' = { q \in dirs : q # Append(path, <<k>>)
                                  /\ ~Under(Append(path, <<k>>), q) }
    /\ op' = "rmtree"
    /\ pc' = "done"
    /\ err' = ""
    /\ UNCHANGED <<thesis_dir, files, counter, chapter, sections, subsections,
                   L, args, pubVars>>

NextFtc == CreateFtc \/ RemoveFtc

SpecFtc == InitFtc /\ [][NextFtc]_vars

NoFtcFolders(d, f, path) ==
    \A k \in {"figs", "tabs", "code"} : ~Exists(d, f, Append(path, <<k>>))

\* C8: create_ftc(path, typ) on a path without figs/tabs/code folders makes
\* path/k for exactly the keys k whose value is true, and nothing else
\* besides the directories that lead to them.
C8_ExactlyTheTrueKeys ==
    (op = "create_ftc" /\ NoFtcFolders(args.dirs, args.files, args.path)) =>
        /\ \A i \in 1..Len(args.typ) :
              (Append(args.path, <<args.typ[i][1]>>) \in dirs)
                  <=> (args.typ[i][2] = 1)
        /\ dirs \ args.dirs
             \subseteq UNION { Prefixes(Append(args.path, <<args.typ[i][1]>>)) :
                                 i \in { j \in 1..Len(args.typ) :
                                           args.typ[j][2] = 1 } }
        /\ files = args.files

C8_Witness ==
    /\ op = "create_ftc"
    /\ NoFtcFolders(args.dirs, args.files, args.path)
    /\ args.typ = Ftc(1, 0, 1)
    /\ Append(args.path, <<"figs">>) \in dirs
    /\ Append(args.path, <<"code">>) \in dirs
    /\ Append(args.path, <<"tabs">>) \notin dirs

---------------------------------------------------------------------------
(* dir_structure.py: values and dicts of the publisher.  A value is a      *)
(* record [t, v]: its Python type and its content as a sequence of strs.   *)

StrV(str) == [t |-> "str", v |-> <<str>>]
TupleV(a, b) == [t |-> "tuple", v |-> <<a, b>>]
ListV(strs) == [t |-> "list", v |-> strs]
PathV(parts) == [t |-> "Path", v |-> parts]
FloatV(tok) == [t |-> "float", v |-> << <<tok>> >>]
BoolV(b) == [t |-> "bool", v |-> IF b THEN << <<"True">> >> ELSE << <<"False">> >>]
NoneV == [t |-> "None", v |-> <<>>]

\* str(value), as string.Template.substitute formats a field
StrOf(val) ==
    CASE val.t = "Path" -> StrPath(val.v)
      [] val.t = "tuple" ->
            <<"('">> \o val.v[1] \o <<"', '">> \o val.v[2] \o <<"')">>
      [] OTHER -> val.v[1]

\* bool(value)
Truthy(val) ==
    CASE val.t = "None" -> FALSE
      [] val.t = "bool" -> val.v[1] = <<"True">>
      [] val.t = "str" -> Len(val.v[1]) > 0
      [] OTHER -> Len(val.v) > 0

\* len(value) of a str (its tokens are its characters) or of a list
LenOf(val) == IF val.t = "str" THEN Len(val.v[1]) ELSE Len(val.v)

\* d[k] = val
DictSet(d, k, val) ==
    IF HasKey(d, k)
    THEN [i \in 1..Len(d) |-> IF d[i][1] = k THEN <<k, val>> ELSE d[i]]
    ELSE Append(d, <<k, val>>)

\* d[k]
DictGet(d, k) == PopValue(d, k, NoneV)

\* s.lower(), token by token
LowerTok(tok) ==
    CASE tok = "PNG" -> "png"
      [] tok = "Chapter" -> "chapter"
      [] tok = "Section" -> "section"
      [] tok = "Figs" -> "figs"
      [] OTHER -> tok

Lower(str) == [i \in 1..Len(str) |-> LowerTok(str[i])]

\* s.replace(" ", "")
NoSpaces(str) == SelectSeq(str, LAMBDA tok : tok # " ")

\* s.split(sep): the parts between the separators, empty ones kept
RECURSIVE SplitAt(_, _, _)
SplitAt(str, sep, cur) ==
    IF Len(str) = 0 THEN <<cur>>
    ELSE IF Head(str) = sep
         THEN <<cur>> \o SplitAt(Tail(str), sep, <<>>)
         ELSE SplitAt(Tail(str), sep, Append(cur, Head(str)))

Split(str, sep) == SplitAt(str, sep, <<>>)

\* s.replace(old, new) for a non-empty old
RECURSIVE Replace(_, _, _)
Replace(str, old, new) ==
    IF Len(str) < Len(old) THEN str
    ELSE IF SubSeq(str, 1, Len(old)) = old
         THEN new \o Replace(SubSeq(str, Len(old) + 1, Len(str)), old, new)
         ELSE <<Head(str)>> \o Replace(Tail(str), old, new)

\* "".join(strs)
RECURSIVE Concat(_)
Concat(strs) == IF Len(strs) = 0 THEN <<>> ELSE Head(strs) \o Concat(Tail(strs))

\* the number of places where needle occurs in haystack
Occurrences(haystack, needle) ==
    Cardinality({ i \in 0..(Len(haystack) - Len(needle)) :
                    SubSeq(haystack, i + 1, i + Len(needle)) = needle })

---------------------------------------------------------------------------
(* dir_structure.py: class Chapter *)

\* Chapter.__init__
NewChapter(filename, chdir, location, typ) ==
    [chapter_dir |-> chdir,
     location |-> Split(NoSpaces(Lower(location)), "\n"),
     filename |-> filename,
     fmt |-> Lower(Split(filename, ".")[Len(Split(filename, "."))]),
     folder |-> Lower(typ)]

FOLDERS == << <<>>, <<"sections", "/">>, <<"subsections", "/">> >>

\* the path string _construct_path builds from the first k locations
RECURSIVE ConstructStr(_, _)
ConstructStr(location, k) ==
    IF k = 0 THEN <<>>
    ELSE ConstructStr(location, k - 1) \o FOLDERS[k] \o location[k] \o <<"/">>

\* chapter_dir / path: an absolute path string replaces chapter_dir
JoinPath(base, str) ==
    IF Len(str) > 0 /\ Head(str) = "/"
    THEN << <<"/">> >> \o PathOf(str)
    ELSE base \o PathOf(str)

\* Chapter._construct_path
construct_path(self) ==
    LET n == IF Len(self.location) < Len(FOLDERS)
             THEN Len(self.location) ELSE Len(FOLDERS)
    IN  JoinPath(self.chapter_dir, ConstructStr(self.location, n))

\* list(goal_dir.glob("*.tex")): the entries of goal_dir named *.tex
GlobTex(d, f, goal_dir) ==
    { q \in Children(d, f, goal_dir) :
        Len(q[Len(q)]) >= 2
        /\ SubSeq(q[Len(q)], Len(q[Len(q)]) - 1, Len(q[Len(q)])) = <<".", "tex">> }

\* Chapter.update(parent, child): the files afterwards
update(f, parent, child) ==
    LET string_ == InputTemplate(child)
        temp == f[parent]
    IN  IF Contains(temp, string_) THEN f
        ELSE WriteText(f, parent, temp \o string_)

---------------------------------------------------------------------------
(* tools/template_strings.py: the caption templates *)

\* the fields of the figure template in the order they stand in it
FigureFields(short) ==
    IF short
    THEN <<"position", "width", "path", "short_caption", "long_caption", "label">>
    ELSE <<"position", "width", "path", "caption", "label">>

\* as FigureTemplate, but the pair is taken as (short, long)
FigureTemplate_swapped(short, m) ==
    <<"\\begin{figure}[">> \o StrOf(DictGet(m, "position"))
    \o <<"]", "\n", "\t\\centering", "\n", "\t\\includegraphics[width=">>
    \o StrOf(DictGet(m, "width")) \o <<"\\textwidth]{">>
    \o StrOf(DictGet(m, "path")) \o <<"}", "\n">>
    \o (IF short
        THEN <<"\t\\caption[">> \o StrOf(DictGet(m, "long_caption"))
             \o <<"]{">> \o StrOf(DictGet(m, "short_caption"))
        ELSE <<"\t\\caption{">> \o StrOf(DictGet(m, "caption")))
    \o <<"}", "\n", "\t\\label{fig:">> \o StrOf(DictGet(m, "label"))
    \o <<"}", "\n", "\\end{figure}", "\n">>

\* FigureTemplate(short_caption).template with the fields filled from m
FigureTemplate(short, m) ==
    <<"\\begin{figure}[">> \o StrOf(DictGet(m, "position"))
    \o <<"]", "\n", "\t\\centering", "\n", "\t\\includegraphics[width=">>
    \o StrOf(DictGet(m, "width")) \o <<"\\textwidth]{">>
    \o StrOf(DictGet(m, "path")) \o <<"}", "\n">>
    \o (IF short
        THEN <<"\t\\caption[">> \o StrOf(DictGet(m, "short_caption"))
             \o <<"]{">> \o StrOf(DictGet(m, "long_caption"))
        ELSE <<"\t\\caption{">> \o StrOf(DictGet(m, "caption")))
    \o <<"}", "\n", "\t\\label{fig:">> \o StrOf(DictGet(m, "label"))
    \o <<"}", "\n", "\\end{figure}", "\n">>

\* _CaptionTemplate.substitute: the caller's mapping after the call (the
\* caption pair is split and popped, the path is replaced by its string)
CaptionMapping(short, m) ==
    LET m1 == IF short
              THEN PopRest(DictSet(DictSet(m, "short_caption",
                                           StrV(DictGet(m, "caption").v[2])),
                                   "long_caption",
                                   StrV(DictGet(m, "caption").v[1])),
                           "caption")
              ELSE m
    IN  DictSet(m1, "path", StrV(reformat_path(DictGet(m1, "path").v)))

\* string.Template.substitute: the first field of the template m lacks
MissingField(fields, m) ==
    IF \A i \in 1..Len(fields) : HasKey(m, fields[i]) THEN ""
    ELSE fields[CHOOSE i \in 1..Len(fields) :
                    /\ ~HasKey(m, fields[i])
                    /\ \A j \in 1..(i - 1) : HasKey(m, fields[j])]

---------------------------------------------------------------------------
(* dir_structure.py: Chapter.save_fig *)

MATPLOTLIB == "matplotlib.figure"
PLOTLY == "plotly.graph_objs._figure"

\* the bytes a backend writes for a figure
Image(backend, fmt) == <<backend>> \o fmt

\* as child_folder, but the goal directory itself
child_folder_goal_dir(self) == construct_path(self)

\* goal_dir / self._folder
child_folder(self) == JoinPath(construct_path(self), self.folder)

child_filename(self) == JoinPath(child_folder(self), self.filename)

child_filename_tex(self) ==
    JoinPath(child_folder(self), Replace(self.filename, self.fmt, <<"tex">>))

\* the child folder is made unless it exists
MakeChildFolder(d, f, self) ==
    IF Exists(d, f, child_folder(self))
    THEN [dirs |-> d, err |-> ""]
    ELSE Mkdir(d, f, child_folder(self), TRUE)

\* as WriteFigure, but a figure of any other type is saved with savefig
WriteFigure_any(f, self, kind, env) ==
    CASE kind = PLOTLY ->
            IF self.fmt = <<"eps">> /\ ~env.poppler
            THEN [files |-> f, err |-> "ModuleNotFoundError"]
            ELSE IF env.kaleido
                 THEN [files |-> WriteText(f, child_filename(self),
                                           Image("kaleido", self.fmt)),
                       err |-> ""]
                 ELSE [files |-> WriteText(f, child_filename(self),
                                           Image("write_image", self.fmt)),
                       err |-> ""]
      [] OTHER ->
            [files |-> WriteText(f, child_filename(self),
                                 Image("savefig", self.fmt)), err |-> ""]

\* the dispatch on type(fig).__module__: the files afterwards and the
\* exception raised.  env says which optional modules can be imported.
WriteFigure(f, self, kind, env) ==
    CASE kind = MATPLOTLIB ->
            [files |-> WriteText(f, child_filename(self),
                                 Image("savefig", self.fmt)), err |-> ""]
      [] kind = PLOTLY ->
            IF self.fmt = <<"eps">> /\ ~env.poppler
            THEN [files |-> f, err |-> "ModuleNotFoundError"]
            ELSE IF env.kaleido
                 THEN [files |-> WriteText(f, child_filename(self),
                                           Image("kaleido", self.fmt)),
                       err |-> ""]
                 ELSE [files |-> WriteText(f, child_filename(self),
                                           Image("write_image", self.fmt)),
                       err |-> ""]
      [] OTHER -> [files |-> f, err |-> "TypeError"]

\* save_fig up to the fill of the template: the disk, the caller's
\* description and the exception raised
SaveFigure(d, f, self, kind, env, desc) ==
    LET mk == MakeChildFolder(d, f, self)
        desc1 == DictSet(desc, "path", PathV(child_filename(self)))
        wr == WriteFigure(f, self, kind, env)
        short == DictGet(desc1, "caption").t = "tuple"
        desc2 == CaptionMapping(short, desc1)
        missing == MissingField(FigureFields(short), desc2)
    IN  IF mk.err # ""
        THEN [dirs |-> mk.dirs, files |-> f, desc |-> desc, err |-> mk.err]
        ELSE IF wr.err # ""
        THEN [dirs |-> mk.dirs, files |-> f, desc |-> desc1, err |-> wr.err]
        ELSE IF ~HasKey(desc1, "caption")
        THEN [dirs |-> mk.dirs, files |-> wr.files, desc |-> desc1,
              err |-> "KeyError"]
        ELSE IF missing # ""
        THEN [dirs |-> mk.dirs, files |-> wr.files, desc |-> desc2,
              err |-> "KeyError"]
        ELSE [dirs |-> mk.dirs,
              files |-> WriteText(wr.files, child_filename_tex(self),
                                  FigureTemplate(short, desc2)),
              desc |-> desc2, err |-> ""]

\* the rest of save_fig: the first .tex file of goal_dir is the parent the
\* fragment is linked from; parent is <<>> if the glob finds none
LinkBack(R, parent, child) ==
    IF R.err # "" THEN R
    ELSE IF parent = <<>> THEN [R EXCEPT !.err = "IndexError"]
    ELSE [R EXCEPT !.files = update(R.files, parent, child)]

\* what list(goal_dir.glob("*.tex"))[0] can be
Parents(R, self) ==
    IF R.err # "" \/ GlobTex(R.dirs, R.files, construct_path(self)) = {}
    THEN { <<>> }
    ELSE GlobTex(R.dirs, R.files, construct_path(self))

---------------------------------------------------------------------------
(* dir_structure.py: Chapter.save_tab and Chapter._rewrite_table *)

ARRAYSTRETCH == FloatV("1.8")

\* TableTemplate().template with the fields filled from m
TableTemplate(m) ==
    <<"\\begingroup", "\n", "\\renewcommand{\\arraystretch}{">>
    \o StrOf(DictGet(m, "arraystretch")) \o <<"}", "\n">>
    \o StrOf(DictGet(m, "data")) \o <<"\n", "\\endgroup", "\n">>

TableFields == <<"arraystretch", "data">>

\* "".join(n * [tok])
RECURSIVE Times(_, _)
Times(n, tok) == IF n = 0 THEN <<>> ELSE <<tok>> \o Times(n - 1, tok)

\* data.to_latex(index=False, caption=..., label=...) of a frame with n
\* columns: a table environment with caption and label on lines 3 and 4
to_latex(n) ==
    <<"\\begin{table}", "\n", "\\centering", "\n",
      "\\caption{", "Results", "}", "\n",
      "\\label{", "tab:results", "}", "\n",
      "\\begin{tabular}{">> \o Times(n, "l") \o <<"}", "\n",
      "\\toprule", "\n", "header", "\n", "\\midrule", "\n", "row", "\n",
      "\\bottomrule", "\n", "\\end{tabular}", "\n", "\\end{table}", "\n">>

\* "\n".join(lines)
RECURSIVE JoinNewline(_)
JoinNewline(lines) ==
    IF Len(lines) = 0 THEN <<>>
    ELSE IF Len(lines) = 1 THEN lines[1]
    ELSE lines[1] \o <<"\n">> \o JoinNewline(Tail(lines))

\* del temp[i] for a 0-based index i
Del(temp, i) == SubSeq(temp, 1, i) \o SubSeq(temp, i + 2, Len(temp))

\* as InsertBeforeLastTwo, but temp.insert(-1, x)
InsertBeforeLast(temp, x) ==
    IF Len(temp) < 1 THEN <<x>>
    ELSE SubSeq(temp, 1, Len(temp) - 1) \o <<x>> \o <<temp[Len(temp)]>>

\* temp.insert(-2, x)
InsertBeforeLastTwo(temp, x) ==
    IF Len(temp) < 2 THEN <<x>> \o temp
    ELSE SubSeq(temp, 1, Len(temp) - 2) \o <<x>>
         \o SubSeq(temp, Len(temp) - 1, Len(temp))

\* the caption and the label (lines 3 and 4) are moved to the bottom
BottomCaption(data) ==
    LET temp == Split(data, "\n")
        rest == Del(Del(temp, 2), 2)
    IN  JoinNewline(InsertBeforeLastTwo(InsertBeforeLastTwo(rest, temp[3]),
                                        temp[4]))

\* col_re.sub(column_type_, data) with col_re = "(?<=tabular}{).*?(?=})"
RECURSIVE SubColumns(_, _, _)
SubColumns(data, i, repl) ==
    IF i > Len(data) THEN <<>>
    ELSE IF data[i] = "\\begin{tabular}{" /\ MatchEnd(data, i + 1) # 0
         THEN <<data[i]>> \o repl \o SubColumns(data, MatchEnd(data, i + 1), repl)
         ELSE <<data[i]>> \o SubColumns(data, i + 1, repl)

\* re.search(r"[-+]?\d*\.?\d+|\d+", w) finds a number in the measure w
HasNumber(w) == \E i \in 1..Len(w) : w[i] \in {"3", "4.5"}

\* assert (n := len(column_type)) == num_data
ColumnCountOk(column_type, num_data) == LenOf(column_type) = num_data

\* Chapter._rewrite_table: the text returned and the exception raised.  The
\* widths of a list of measures are summed for a log warning only.
rewrite_table(data, num_data, column_type, top_caption) ==
    LET column_type_ == IF column_type.t = "list"
                        THEN Concat(column_type.v) ELSE column_type.v[1]
        data1 == IF Truthy(column_type)
                 THEN SubColumns(data, 1, column_type_) ELSE data
    IN  IF Truthy(column_type) /\ ~ColumnCountOk(column_type, num_data)
        THEN [data |-> data, err |-> "AssertionError"]
        ELSE IF /\ Truthy(column_type)
                /\ column_type.t = "list"
                /\ \E i \in 1..Len(column_type.v) : ~HasNumber(column_type.v[i])
        THEN [data |-> data, err |-> "AttributeError"]
        ELSE IF Truthy(top_caption) THEN [data |-> data1, err |-> ""]
        ELSE IF Len(Split(data1, "\n")) < 4
        THEN [data |-> data1, err |-> "IndexError"]
        ELSE [data |-> BottomCaption(data1), err |-> ""]

\* save_tab up to the fill of the template, for a frame with n columns, no
\* format_cols, and the dict la that is bound to latex_args
SaveTable(d, f, self, n, la) ==
    LET mk == MakeChildFolder(d, f, self)
        la1 == IF Len(la) = 0 THEN DictSet(la, "arraystretch", ARRAYSTRETCH)
               ELSE la
        column_type == PopValue(la1, "column_type", NoneV)
        la2 == PopRest(la1, "column_type")
        top_caption == PopValue(la2, "top_caption", BoolV(FALSE))
        la3 == PopRest(la2, "top_caption")
        rw == rewrite_table(to_latex(n), n, column_type, top_caption)
        la4 == DictSet(la3, "data", StrV(rw.data))
        missing == MissingField(TableFields, la4)
    IN  IF mk.err # ""
        THEN [dirs |-> mk.dirs, files |-> f, desc |-> la, err |-> mk.err]
        ELSE IF rw.err # ""
        THEN [dirs |-> mk.dirs, files |-> f, desc |-> la3, err |-> rw.err]
        ELSE IF missing # ""
        THEN [dirs |-> mk.dirs, files |-> f, desc |-> la4, err |-> "KeyError"]
        ELSE [dirs |-> mk.dirs,
              files |-> WriteText(f, child_filename(self), TableTemplate(la4)),
              desc |-> la4, err |-> ""]

---------------------------------------------------------------------------
(* The publisher of figures as a state machine.  It starts on the tree the *)
(* scaffolder leaves for one chapter with one section and one subsection.  *)

ScaffoldChapter ==
    << <<"chapter", 1>>, <<"num_sections", 1>> >> \o Ftc(1, 0, 0)

ScaffoldSections ==
    << << <<"section", 1>>, <<"num_subsections", 1>> >> \o Ftc(0, 0, 0) >>

ScaffoldSubsections ==
    (<<"1">> :> << << <<"subsection", 1>> >> \o Ftc(0, 0, 0) >>)

\* the frame init_chapter_dir ends in on the empty thesis directory root
Scaffolded(root) ==
    RunInit([root |-> root, dirs |-> Prefixes(root), files |-> <<>>,
             chapter |-> ScaffoldChapter, sections |-> ScaffoldSections,
             subsections |-> ScaffoldSubsections, L |-> NoLocals,
             pc |-> "start", err |-> ""])

Locations ==
    { <<"chapter", "1">>,
      <<"Chapter", "1", "\n", "section", "1">>,
      <<"chapter", "1", "\n", "section", " ", "1", "\n", "subsection", "1">>,
      <<"chapter", "1", "\n">> }

Filenames ==
    { <<"plot", ".", "png">>, <<"plot", ".", "PNG">>, <<"loss", ".", "eps">> }

FigKinds == { MATPLOTLIB, PLOTLY, "builtins" }

\* the optional modules that matter for a figure of a kind
Envs(kind) ==
    IF kind = PLOTLY
    THEN [kaleido : BOOLEAN, poppler : BOOLEAN]
    ELSE { [kaleido |-> FALSE, poppler |-> FALSE] }

Captions ==
    { StrV(<<"A plot">>), TupleV(<<"A long caption">>, <<"short">>) }

FigDescs ==
    { << <<"width", FloatV("0.8")>>, <<"caption", c>>,
         <<"label", StrV(<<"plot">>)>>, <<"position", StrV(<<"htb">>)>> >> :
        c \in Captions }
    \cup { << <<"width", FloatV("0.8")>>, <<"label", StrV(<<"plot">>)>>,
              <<"position", StrV(<<"htb">>)>> >> }

InitFig ==
    /\ thesis_dir \in Roots
    /\ dirs = Scaffolded(thesis_dir).dirs
    /\ files = Scaffolded(thesis_dir).files
    /\ counter = 0
    /\ op = "init_chapter_dir"
    /\ pc = "done"
    /\ err = ""
    /\ chapter = Scaffolded(thesis_dir).chapter
    /\ sections = Scaffolded(thesis_dir).sections
    /\ subsections = Scaffolded(thesis_dir).subsections
    /\ L = Scaffolded(thesis_dir).L
    /\ args = NoArgs
    /\ fig_desc = <<>>
    /\ latex_args = <<>>
    /\ latex_default = <<>>
    /\ rendered = <<>>

\* Chapter(filename, thesis_dir / "chapters", location, "figs")
\*     .save_fig(fig, desc) with a figure of the given kind
CallSaveFig(filename, location, kind, env, desc, repeat) ==
    LET self == NewChapter(filename, chapter_dir(thesis_dir), location, <<"Figs">>)
        R == SaveFigure(dirs, files, self, kind, env, desc)
    IN  \E parent \in Parents(R, self) :
        \E G \in {LinkBack(R, parent, child_filename_tex(self))} :
            /\ dirs' = G.dirs
            /\ files' = G.files
            /\ fig_desc' = G.desc
            /\ err' = G.err
            /\ pc' = IF G.err = "" THEN "done" ELSE "failed"
            /\ op' = "save_fig"
            /\ args' = [filename |-> filename, location |-> location,
                        kind |-> kind, env |-> env, desc |-> desc,
                        repeat |-> repeat, first_err |-> err,
                        dirs |-> dirs, files |-> files]
            /\ UNCHANGED <<thesis_dir, counter, chapter, sections,
                           subsections, L, latex_args, latex_default,
                           rendered>>

\* the first figure is published into the scaffolded tree, with a
\* description written for the call
SaveFig ==
    /\ op = "init_chapter_dir"
    /\ \E filename \in Filenames, location \in Locations, kind \in FigKinds,
         desc \in FigDescs :
          \E env \in Envs(kind) :
              CallSaveFig(filename, location, kind, env, desc, FALSE)

\* the figure published last is published again: same description record
\* (as the last call left it), same filename, same location
SaveFigAgain ==
    /\ op = "save_fig"
    /\ CallSaveFig(args.filename, args.location, args.kind, args.env,
                   fig_desc, TRUE)

NextFig == SaveFig \/ SaveFigAgain

SpecFig == InitFig /\ [][NextFig]_vars

---------------------------------------------------------------------------
(* Properties of the publisher of figures *)

\* the Chapter object of the last save_fig call
LastChapter ==
    NewChapter(args.filename, chapter_dir(thesis_dir), args.location, <<"Figs">>)

\* the \input statement for a fragment, without the newlines around it
InputStatement(child) ==
    SubSeq(InputTemplate(child), 2, Len(InputTemplate(child)) - 1)

\* the last call published once more what the call before it had published
\* successfully
PublishedTwice ==
    /\ op = "save_fig"
    /\ args.repeat
    /\ args.first_err = ""

\* C7: publishing the same figure twice with the same description record,
\* the same filename and the same location succeeds both times and leaves
\* exactly one \input statement for the fragment in the parent file, for a
\* string caption and for a (long, short) caption alike.
C7_TwiceLinksOnce ==
    PublishedTwice =>
        /\ err = ""
        /\ \A parent \in GlobTex(dirs, files, construct_path(LastChapter)) :
               Occurrences(files[parent],
                           InputStatement(child_filename_tex(LastChapter))) = 1

\* the part of C7 that holds: with a string caption the second call
\* succeeds and the parent has the \input statement once
StringCaptionTwiceLinksOnce ==
    (PublishedTwice /\ HasKey(fig_desc, "caption")) => C7_TwiceLinksOnce

StringCaptionTwice ==
    /\ PublishedTwice
    /\ HasKey(fig_desc, "caption")
    /\ err = ""

\* the second call with a (long, short) caption
PairCaptionTwice ==
    /\ PublishedTwice
    /\ HasKey(fig_desc, "long_caption")
    /\ err = "KeyError"

---------------------------------------------------------------------------
(* The publisher of tables as a state machine, on the same scaffolded tree *)

MaxColumns == 3

TableFilename == <<"results", ".", "tex">>

ColumnTypes ==
    { StrV(<<"l", "r">>), StrV(<<"l", "l", "r">>), StrV(<<>>),
      ListV(<<>>),
      ListV(<< <<"l">>, <<"r">> >>),
      ListV(<< <<"p{", "3", "cm}">>, <<"p{", "4.5", "cm}">> >>),
      ListV(<< <<"p{", "3", "cm}">>, <<"p{", "3", "cm}">>,
               <<"p{", "4.5", "cm}">> >>) }

\* the dicts a caller passes as latex_args
LatexArgs ==
    { ct \o as \o tc :
        ct \in { <<>> } \cup { << <<"column_type", c>> >> : c \in ColumnTypes },
        as \in { <<>>, << <<"arraystretch", FloatV("1.2")>> >> },
        tc \in { <<>> } \cup { << <<"top_caption", BoolV(b)>> >> : b \in BOOLEAN } }

InitTab ==
    /\ thesis_dir \in Roots
    /\ dirs = Scaffolded(thesis_dir).dirs
    /\ files = Scaffolded(thesis_dir).files
    /\ counter = 0
    /\ op = "init_chapter_dir"
    /\ pc = "done"
    /\ err = ""
    /\ chapter = Scaffolded(thesis_dir).chapter
    /\ sections = Scaffolded(thesis_dir).sections
    /\ subsections = Scaffolded(thesis_dir).subsections
    /\ L = Scaffolded(thesis_dir).L
    /\ args = NoArgs
    /\ fig_desc = <<>>
    /\ latex_args = <<>>
    /\ latex_default = <<>>
    /\ rendered = <<>>

\* Chapter(TableFilename, thesis_dir / "chapters", location, "tabs")
\*     .save_tab(data, data_desc, latex_args=la) for a frame with n columns;
\* without the latex_args argument (default) la is the default object
CallSaveTab(location, n, la, default, repeat) ==
    LET self == NewChapter(TableFilename, chapter_dir(thesis_dir), location,
                           <<"tabs">>)
        R == SaveTable(dirs, files, self, n, la)
    IN  \E parent \in Parents(R, self) :
        \E G \in {LinkBack(R, parent, child_filename(self))} :
            /\ dirs' = G.dirs
            /\ files' = G.files
            /\ latex_args' = IF default THEN latex_args ELSE G.desc
            /\ latex_default' = IF default THEN G.desc ELSE latex_default
            /\ err' = G.err
            /\ pc' = IF G.err = "" THEN "done" ELSE "failed"
            /\ op' = "save_tab"
            /\ args' = [location |-> location, columns |-> n,
                        latex_args |-> la, default |-> default,
                        repeat |-> repeat, first_err |-> err,
                        dirs |-> dirs, files |-> files]
            /\ UNCHANGED <<thesis_dir, counter, chapter, sections,
                           subsections, L, fig_desc, rendered>>

\* the first table is published with a dict written for the call
SaveTab ==
    /\ op = "init_chapter_dir"
    /\ \E location \in Locations, n \in 1..MaxColumns, la \in LatexArgs :
          CallSaveTab(location, n, la, FALSE, FALSE)

\* the first table is published without the latex_args argument
SaveTabDefault ==
    /\ op = "init_chapter_dir"
    /\ \E location \in Locations, n \in 1..MaxColumns :
          CallSaveTab(location, n, latex_default, TRUE, FALSE)

\* the table published last is published again with the same dict object
SaveTabAgain ==
    /\ op = "save_tab"
    /\ CallSaveTab(args.location, args.columns,
                   IF args.default THEN latex_default ELSE latex_args,
                   args.default, TRUE)

NextTab == SaveTab \/ SaveTabDefault \/ SaveTabAgain

SpecTab == InitTab /\ [][NextTab]_vars

---------------------------------------------------------------------------
(* Properties of the publisher of tables *)

\* the last call was a first save_tab with a column-type list of the wrong
\* length
ColumnListMismatch ==
    /\ op = "save_tab"
    /\ ~args.repeat
    /\ HasKey(args.latex_args, "column_type")
    /\ DictGet(args.latex_args, "column_type").t = "list"
    /\ LenOf(DictGet(args.latex_args, "column_type")) # args.columns

\* C10: save_tab with a column-type list whose length differs from the
\* number of data columns fails with the count-mismatch error
\* (AssertionError) and creates or modifies no file.
C10_ColumnMismatchWritesNothing ==
    ColumnListMismatch => (err = "AssertionError" /\ files = args.files)

\* the part of C10 that holds: a non-empty list of the wrong length
NonEmptyMismatchWritesNothing ==
    (ColumnListMismatch /\ Truthy(DictGet(args.latex_args, "column_type")))
        => (err = "AssertionError" /\ files = args.files)

\* the empty list on a frame with columns: no assertion, the table is written
EmptyListPublished ==
    /\ ColumnListMismatch
    /\ err = ""
    /\ files # args.files

---------------------------------------------------------------------------
(* tools/maintenance.py: check_main and cleanup, and cleanup as it is in   *)
(* the older revision api/tools/maintenance.py                              *)

main_file(root) == Append(root, <<"main", ".", "tex">>)

\* self._chapter_dir.glob("chapter*/*.tex")
GlobChapterTex(d, f, root) ==
    { q \in DOMAIN f :
        /\ Len(q) = Len(root) + 3
        /\ SubSeq(q, 1, Len(root) + 1) = chapter_dir(root)
        /\ q[Len(root) + 2][1] = "chapter"
        /\ Len(q[Len(q)]) >= 2
        /\ SubSeq(q[Len(q)], Len(q[Len(q)]) - 1, Len(q[Len(q)])) = TEX_FILE }

\* as check_main, but a missing target is tallied as check_inputs does
check_main_tally(d, f, root, cnt) ==
    IF main_file(root) \notin DOMAIN f
    THEN [counter |-> cnt, files |-> f, err |-> "FileNotFoundError"]
    ELSE [counter |-> cnt + Broken(d, f, root, f[main_file(root)]),
          files |-> f, err |-> ""]

\* Maintainer.check_main: the counter and the files afterwards and the
\* exception raised.  The targets are only logged; the glob loop compares
\* and passes.
check_main(d, f, root, cnt) ==
    IF main_file(root) \notin DOMAIN f
    THEN [counter |-> cnt, files |-> f, err |-> "FileNotFoundError"]
    ELSE [counter |-> cnt, files |-> f, err |-> ""]

\* as Sweep, but a directory is removed whether it is empty or not
RECURSIVE Sweep_all(_, _, _, _)
Sweep_all(d, f, todo, delete) ==
    IF todo = {} THEN d
    ELSE LET c == CHOOSE x \in todo : TRUE
             rest == todo \ {c}
         IN  IF c \notin d THEN Sweep_all(d, f, rest, delete)
             ELSE IF delete
                  THEN Sweep_all({ q \in d : q # c /\ ~Under(c, q) }, f, rest,
                                 delete)
                  ELSE Sweep_all(d, f, rest, delete)

\* cleanup(child, delete): the directories afterwards.  todo holds the
\* entries still to visit, as the recursion over iterdir() does.
RECURSIVE Sweep(_, _, _, _)
Sweep(d, f, todo, delete) ==
    IF todo = {} THEN d
    ELSE LET c == CHOOSE x \in todo : TRUE
             rest == todo \ {c}
         IN  IF c \notin d THEN Sweep(d, f, rest, delete)
             ELSE IF Children(d, f, c) # {}
                  THEN Sweep(d, f, rest \cup Children(d, f, c), delete)
                  ELSE IF delete THEN Sweep(d \ {c}, f, rest, delete)
                       ELSE Sweep(d, f, rest, delete)

\* Maintainer.cleanup of thesis_api
cleanup(d, f, child, delete) == Sweep(d, f, Children(d, f, child), delete)

\* the directories directly in p that have no contents
EmptyChildren(d, f, p) ==
    { c \in Children(d, f, p) : c \in d /\ Children(d, f, c) = {} }

\* the directories directly in p that have contents
FullChildren(d, f, p) ==
    { c \in Children(d, f, p) : c \in d /\ Children(d, f, c) # {} }

\* Maintainer.cleanup of api: the loop runs over the thesis directory, not
\* over child, and so does every recursive call.  With a non-empty
\* subdirectory the recursion never returns and ends in RecursionError; the
\* empty subdirectories iterdir() yielded before it are gone by then.
\* The outcomes: the directories afterwards and the exception raised.
cleanup_api(d, f, root, child, delete) ==
    IF FullChildren(d, f, root) = {}
    THEN { [dirs |-> IF delete THEN d \ EmptyChildren(d, f, root) ELSE d,
            err |-> ""] }
    ELSE { [dirs |-> d \ gone, err |-> "RecursionError"] :
             gone \in IF delete THEN SUBSET EmptyChildren(d, f, root)
                      ELSE { {} } }

---------------------------------------------------------------------------
(* The maintenance operations on a thesis directory that was written by    *)
(* hand: check_inputs, check_main, cleanup (both revisions)                 *)

MaxCounter == 4

\* the paths of the .tex files of a tree, relative to the thesis directory
MainRel == << <<"main", ".", "tex">> >>
ChapterRel ==
    << <<"chapters">>, <<"chapter", "1">>, <<"chapter", "1", ".", "tex">> >>
SectionRel ==
    << <<"chapters">>, <<"chapter", "1">>, <<"sections">>, <<"section", "1">>,
       <<"section", "1", ".", "tex">> >>
BackupRel ==
    << <<"chapters">>, <<"chapter", "1">>, <<"notes", ".", "tex", ".", "bak">> >>
ImageRel ==
    << <<"chapters">>, <<"chapter", "1">>, <<"figs">>, <<"plot", ".", "png">> >>

\* \input{rel}
InputOf(rel) == <<"\\input{">> \o JoinSlash(rel) \o <<"}">>

GoneA == << <<"gone">>, <<"a", ".", "tex">> >>
GoneB == << <<"chapters">>, <<"chapter", "2">>, <<"chapter", "2", ".", "tex">> >>

\* texts with no, one, two and three input statements; in the last two a
\* missing target comes before others
Plain == <<"text", "\n">>
OneInput == <<"text", "\n">> \o InputOf(ChapterRel) \o <<"\n">>
MissingFirst ==
    <<"\n">> \o InputOf(GoneB) \o <<"\n", "\n">> \o InputOf(SectionRel)
    \o <<"\n">>
ThreeInputs ==
    InputOf(SectionRel) \o <<" ">> \o InputOf(GoneA) \o <<"\n">>
    \o InputOf(GoneB) \o <<"\n">>

\* the empty directories a tree may have, relative to the thesis directory
EmptyRels ==
    { << <<"drafts">> >>,
      << <<"old">>, <<"empty">> >>,
      << <<"chapters">>, <<"chapter", "1">>, <<"code">> >> }

\* the files of a tree: for each path the text it has, <<>> if it is absent
TreeFiles ==
    [ {MainRel} -> {<<>>, OneInput, MissingFirst} ]
    \X [ {ChapterRel} -> {<<>>, MissingFirst, ThreeInputs} ]
    \X [ {SectionRel} -> {<<>>, Plain} ]
    \X [ {BackupRel} -> {<<>>, MissingFirst} ]
    \X [ {ImageRel} -> {<<>>, MissingFirst} ]

\* the disk of a tree under root
TreeDisk(root, t, empties) ==
    LET m == t[1] @@ t[2] @@ t[3] @@ t[4] @@ t[5]
        present == { rel \in DOMAIN m : m[rel] # <<>> }
    IN  [files |-> [ q \in { root \o rel : rel \in present } |->
                       m[SubSeq(q, Len(root) + 1, Len(q))] ],
         dirs |-> Prefixes(root)
                  \cup UNION { Prefixes(root \o Parent(rel)) : rel \in present }
                  \cup UNION { Prefixes(root \o rel) : rel \in empties }]

NoCall == [child |-> <<>>, delete |-> FALSE, counter |-> 0, repeat |-> FALSE,
           dirs |-> {}, files |-> <<>>]

InitMaint ==
    /\ thesis_dir \in Roots
    /\ \E t \in TreeFiles, empties \in SUBSET EmptyRels :
          /\ dirs = TreeDisk(thesis_dir, t, empties).dirs
          /\ files = TreeDisk(thesis_dir, t, empties).files
    /\ counter = 0
    /\ op = ""
    /\ pc = "idle"
    /\ err = ""
    /\ chapter = <<>>
    /\ sections = <<>>
    /\ subsections = <<>>
    /\ L = NoLocals
    /\ args = NoCall
    /\ fig_desc = <<>>
    /\ latex_args = <<>>
    /\ latex_default = <<>>
    /\ rendered = <<>>

\* the directories a caller passes as child
ScanRoots == { p \in {thesis_dir, chapter_dir(thesis_dir)} : p \in dirs }

Called(name, child, delete) ==
    /\ op' = name
    /\ args' = [child |-> child, delete |-> delete, counter |-> counter,
                repeat |-> (op = name /\ args.child = child),
                dirs |-> dirs, files |-> files]
    /\ UNCHANGED <<thesis_dir, chapter, sections, subsections, L, pubVars>>

\* Maintainer.check_inputs(child)
ScanInputs ==
    /\ counter < MaxCounter
    /\ \E child \in ScanRoots :
          /\ counter' = counter + check_inputs(dirs, files, thesis_dir, child)
          /\ Called("check_inputs", child, FALSE)
    /\ pc' = "done"
    /\ err' = ""
    /\ UNCHANGED <<dirs, files>>

\* Maintainer.check_main()
CheckMain ==
    /\ op \in {"", "check_main", "check_inputs"}
    /\ \E G \in {check_main(dirs, files, thesis_dir, counter)} :
          /\ counter' = G.counter
          /\ files' = G.files
          /\ err' = G.err
          /\ pc' = IF G.err = "" THEN "done" ELSE "failed"
    /\ Called("check_main", thesis_dir, FALSE)
    /\ UNCHANGED dirs

\* Maintainer.cleanup(child, delete) of thesis_api
Cleanup ==
    /\ op \in {"", "cleanup"}
    /\ \E child \in ScanRoots, delete \in BOOLEAN :
          /\ dirs' = cleanup(dirs, files, child, delete)
          /\ Called("cleanup", child, delete)
    /\ pc' = "done"
    /\ err' = ""
    /\ UNCHANGED <<files, counter>>

\* Maintainer.cleanup(child, delete) of api
CleanupApi ==
    /\ op \in {"", "api.cleanup"}
    /\ \E child \in ScanRoots, delete \in BOOLEAN :
          /\ \E G \in cleanup_api(dirs, files, thesis_dir, child, delete) :
                /\ dirs' = G.dirs
                /\ err' = G.err
                /\ pc' = IF G.err = "" THEN "done" ELSE "failed"
          /\ Called("api.cleanup", child, delete)
    /\ UNCHANGED <<files, counter>>

NextMaint == ScanInputs \/ CheckMain \/ Cleanup \/ CleanupApi

SpecMaint == InitMaint /\ [][NextMaint]_vars

---------------------------------------------------------------------------
(* Properties of the maintenance operations *)

\* the input statements with a missing target in the files Q: pairs of file
\* and position
BrokenInputs(d, f, root, Q) ==
    UNION { { <<q, i>> : i \in { k \in 1..Len(find_input(f[q])) :
                                   ~Exists(d, f, root \o find_input(f[q])[k]) } } :
            q \in Q }

\* a file name ends in ".tex"
EndsInTex(p) ==
    /\ Len(p[Len(p)]) >= Len(TEX_FILE)
    /\ SubSeq(p[Len(p)], Len(p[Len(p)]) - Len(TEX_FILE) + 1, Len(p[Len(p)]))
         = TEX_FILE

\* the .tex files below child
TexFiles(f, child) == { x \in DOMAIN f : Under(child, x) /\ EndsInTex(x) }

\* the files below child whose name has ".tex" somewhere in it
TexNamedFiles(f, child) == { x \in DOMAIN f : Under(child, x) /\ IsTex(x) }

\* C11: one check_inputs(child) scan raises the counter by exactly the
\* number of \input statements, over all .tex files below child, whose
\* target does not exist relative to the thesis directory; statements after
\* a missing target, in the same file and in other files, are counted too.
C11_ScanCountsBroken ==
    op = "check_inputs" =>
        /\ counter = args.counter
                     + Cardinality(BrokenInputs(dirs, files, thesis_dir,
                                                TexFiles(files, args.child)))
        /\ dirs = args.dirs
        /\ files = args.files

\* the part of C11 that holds: the count is exact over the files whose
\* name has ".tex" in it, and a missing target does not end the scan
ScanCountsBrokenOfTexNamed ==
    op = "check_inputs" =>
        /\ counter = args.counter
                     + Cardinality(BrokenInputs(dirs, files, thesis_dir,
                                                TexNamedFiles(files, args.child)))
        /\ dirs = args.dirs
        /\ files = args.files

\* a scan went on after a missing target in main.tex
ScanWentOn ==
    /\ op = "check_inputs"
    /\ args.child = thesis_dir
    /\ main_file(thesis_dir) \in DOMAIN files
    /\ files[main_file(thesis_dir)] = MissingFirst
    /\ thesis_dir \o ChapterRel \in DOMAIN files
    /\ files[thesis_dir \o ChapterRel] = ThreeInputs
    /\ thesis_dir \o ImageRel \in DOMAIN files
    /\ counter - args.counter >= 3

\* the only broken statement is in notes.tex.bak, and the scan counted it
BackupFileCounted ==
    /\ op = "check_inputs"
    /\ args.child = thesis_dir
    /\ BrokenInputs(dirs, files, thesis_dir, TexFiles(files, thesis_dir)) = {}
    /\ thesis_dir \o BackupRel \in DOMAIN files
    /\ files[thesis_dir \o BackupRel] = MissingFirst
    /\ counter = args.counter + 1

\* C12: scanning the same unchanged tree a second time with the same
\* Maintainer leaves the count the first scan reported.
C12_RescanSameCount ==
    (/\ op = "check_inputs"
     /\ args.repeat
     /\ dirs = args.dirs
     /\ files = args.files) => counter = args.counter

\* the directories below child that have no contents
EmptyDirsBelow(d, f, child) ==
    { q \in d : Under(child, q) /\ Children(d, f, q) = {} }

\* C13: cleanup(child, delete) removes exactly the directories below child
\* that had no contents when the call started if delete is true, nothing if
\* delete is false, and never a file or a directory that had contents.
C13_CleanupRemovesEmpty ==
    op = "cleanup" =>
        /\ files = args.files
        /\ dirs = args.dirs \ (IF args.delete
                               THEN EmptyDirsBelow(args.dirs, args.files,
                                                   args.child)
                               ELSE {})

C13_Witness ==
    /\ op = "cleanup"
    /\ args.delete
    /\ args.child = thesis_dir
    /\ thesis_dir \o << <<"old">>, <<"empty">> >> \in args.dirs \ dirs
    /\ thesis_dir \o << <<"old">> >> \in dirs
    /\ thesis_dir \o << <<"drafts">> >> \in args.dirs \ dirs
    /\ DOMAIN files # {}

\* C14: cleanup(child, delete) of either revision returns, and examines
\* (and so removes) only directories below child.
C14_CleanupReturns ==
    op \in {"cleanup", "api.cleanup"} =>
        /\ err = ""
        /\ \A q \in args.dirs \ dirs : Under(args.child, q)

\* the part of C14 that holds: the thesis_api revision
CleanupReturns ==
    op = "cleanup" =>
        /\ err = ""
        /\ \A q \in args.dirs \ dirs : Under(args.child, q)

\* the api revision on a thesis directory with a non-empty subdirectory
ApiCleanupRecursion ==
    /\ op = "api.cleanup"
    /\ err = "RecursionError"

\* C15: check_main leaves the counter of broken references as it was,
\* whether the targets of the \input statements in main.tex exist or not.
C15_CheckMainKeepsCounter ==
    op = "check_main" => counter = args.counter

C15_Witness ==
    /\ op = "check_main"
    /\ err = ""
    /\ Broken(dirs, files, thesis_dir, files[main_file(thesis_dir)]) > 0
    /\ Broken(dirs, files, thesis_dir, files[main_file(thesis_dir)])
          < Len(find_input(files[main_file(thesis_dir)]))
    /\ counter = args.counter
    /\ counter > 0

\* the input statements of main.tex name the file q
Referenced(f, root, q) ==
    \E i \in 1..Len(find_input(f[main_file(root)])) :
        root \o find_input(f[main_file(root)])[i] = q

\* C16: after check_main has returned, every file chapters/chapter*/*.tex
\* is referenced by an \input statement in main.tex.
C16_ChaptersIncluded ==
    (op = "check_main" /\ err = "") =>
        \A q \in GlobChapterTex(dirs, files, thesis_dir) :
            Referenced(files, thesis_dir, q)

---------------------------------------------------------------------------
(* tools/template_strings.py: substitute of the templates, called by hand  *)

\* the fields of the code template in the order they stand in it
CodeFields(short) ==
    IF short
    THEN <<"position", "language", "path", "short_caption", "long_caption",
           "label">>
    ELSE <<"position", "language", "path", "caption", "label">>

\* CodeTemplate(short_caption).template with the fields filled from m
CodeTemplate(short, m) ==
    <<"\\begin{listing}[">> \o StrOf(DictGet(m, "position"))
    \o <<"]", "\n", "\t\\inputminted{">> \o StrOf(DictGet(m, "language"))
    \o <<"}{">> \o StrOf(DictGet(m, "path")) \o <<"}", "\n">>
    \o (IF short
        THEN <<"\t\\caption[">> \o StrOf(DictGet(m, "short_caption"))
             \o <<"]{">> \o StrOf(DictGet(m, "long_caption"))
        ELSE <<"\t\\caption{">> \o StrOf(DictGet(m, "caption")))
    \o <<"}", "\n", "\t\\label{lst:">> \o StrOf(DictGet(m, "label"))
    \o <<"}", "\n", "\\end{listing}", "\n">>

\* InputTemplate.substitute: the caller's mapping after the call
InputMapping(m) ==
    DictSet(m, "path", StrV(reformat_path(DictGet(m, "path").v)))

\* substitute(mapping) of InputTemplate, FigureTemplate(short) and
\* CodeTemplate(short): the caller's mapping afterwards, the string
\* returned and the exception raised
substitute(kind, short, m) ==
    LET m1 == IF kind = "input" THEN InputMapping(m)
              ELSE CaptionMapping(short, m)
        fields == CASE kind = "input" -> <<"path">>
                    [] kind = "figure" -> FigureFields(short)
                    [] kind = "code" -> CodeFields(short)
    IN  IF MissingField(fields, m1) # ""
        THEN [mapping |-> m1, text |-> <<>>, err |-> "KeyError"]
        ELSE [mapping |-> m1,
              text |-> CASE kind = "input" ->
                              <<"\n", "\\input{">> \o StrOf(DictGet(m1, "path"))
                              \o <<"}", "\n">>
                         [] kind = "figure" -> FigureTemplate(short, m1)
                         [] kind = "code" -> CodeTemplate(short, m1),
              err |-> ""]

\* the mapping string.Template.safe_substitute fills the template from: a
\* field the mapping lacks stays as its placeholder
Placeholders(fields, m) ==
    [i \in 1..Len(fields) |->
        <<fields[i], IF HasKey(m, fields[i]) THEN DictGet(m, fields[i])
                     ELSE StrV(<<"$", fields[i]>>)>>]

\* safe_substitute(mapping) of InputTemplate (the method of
\* string.Template: the path is neither reformatted nor stored),
\* FigureTemplate(short) and CodeTemplate(short) (lines 219-241: the
\* mapping is changed as by substitute, a missing field raises nothing)
safe_substitute(kind, short, m) ==
    IF kind = "input"
    THEN [mapping |-> m,
          text |-> <<"\n", "\\input{">>
                   \o StrOf(Placeholders(<<"path">>, m)[1][2]) \o <<"}", "\n">>,
          err |-> ""]
    ELSE IF short /\ ~HasKey(m, "caption")
    THEN [mapping |-> m, text |-> <<>>, err |-> "KeyError"]
    ELSE IF ~HasKey(m, "path")
    THEN [mapping |-> IF short
                      THEN PopRest(DictSet(DictSet(m, "short_caption",
                                             StrV(DictGet(m, "caption").v[2])),
                                           "long_caption",
                                           StrV(DictGet(m, "caption").v[1])),
                                   "caption")
                      ELSE m,
          text |-> <<>>, err |-> "KeyError"]
    ELSE LET m1 == CaptionMapping(short, m)
         IN  [mapping |-> m1,
              text |-> IF kind = "figure"
                       THEN FigureTemplate(short,
                                Placeholders(FigureFields(short), m1))
                       ELSE CodeTemplate(short,
                                Placeholders(CodeFields(short), m1)),
              err |-> ""]

\* thesis directories, among them some with a part named "chapters"
WideRoots ==
    Roots \cup { << <<"/">>, <<"home">>, <<"chapters">>, <<"thesis">> >>,
                 << <<"chapters">>, <<"thesis">> >>,
                 << <<"thesis">> >> }

\* the paths of files under the chapters directory of root
ChapterFiles(root) ==
    { root \o rel : rel \in {ChapterRel, SectionRel, ImageRel} }

TemplateKinds == {"input", "figure", "code"}

\* the mappings a caller passes to a template of a kind
Mappings(kind, short, root) ==
    { (IF kind = "input" THEN <<>>
       ELSE << <<"position", StrV(<<"htb">>)>>,
               <<"caption", IF short
                            THEN TupleV(<<"A long caption">>, <<"short">>)
                            ELSE StrV(<<"A plot">>)>> >>)
      \o << <<"path", PathV(q)>> >>
      \o (IF kind = "figure" THEN << <<"width", FloatV("0.8")>> >> ELSE <<>>)
      \o (IF kind = "code" THEN << <<"language", StrV(<<"python">>)>> >>
          ELSE <<>>)
      \o l :
        q \in ChapterFiles(root),
        l \in { <<>>, << <<"label", StrV(<<"plot">>)>> >> } }

InitTemplate ==
    /\ thesis_dir \in WideRoots
    /\ dirs = Prefixes(thesis_dir)
    /\ files = <<>>
    /\ counter = 0
    /\ op = ""
    /\ pc = "idle"
    /\ err = ""
    /\ chapter = <<>>
    /\ sections = <<>>
    /\ subsections = <<>>
    /\ L = NoLocals
    /\ args = NoArgs
    /\ fig_desc = <<>>
    /\ latex_args = <<>>
    /\ latex_default = <<>>
    /\ rendered = <<>>

\* template.substitute(mapping)
Substitute ==
    \E kind \in TemplateKinds, short \in BOOLEAN :
        /\ kind = "input" => ~short
        /\ \E m \in Mappings(kind, short, thesis_dir) :
           \E G \in {substitute(kind, short, m)} :
              /\ fig_desc' = G.mapping
              /\ rendered' = G.text
              /\ err' = G.err
              /\ pc' = IF G.err = "" THEN "done" ELSE "failed"
              /\ args' = [kind |-> kind, short |-> short, mapping |-> m,
                          dirs |-> dirs, files |-> files]
        /\ op' = "substitute"
        /\ UNCHANGED <<thesis_dir, dirs, files, counter, chapter, sections,
                       subsections, L, latex_args, latex_default>>

\* template.safe_substitute(mapping)
SafeSubstitute ==
    \E kind \in TemplateKinds, short \in BOOLEAN :
        /\ kind = "input" => ~short
        /\ \E m \in Mappings(kind, short, thesis_dir) :
           \E G \in {safe_substitute(kind, short, m)} :
              /\ fig_desc' = G.mapping
              /\ rendered' = G.text
              /\ err' = G.err
              /\ pc' = IF G.err = "" THEN "done" ELSE "failed"
              /\ args' = [kind |-> kind, short |-> short, mapping |-> m,
                          dirs |-> dirs, files |-> files]
        /\ op' = "safe_substitute"
        /\ UNCHANGED <<thesis_dir, dirs, files, counter, chapter, sections,
                       subsections, L, latex_args, latex_default>>

NextTemplate == Substitute \/ SafeSubstitute

SpecTemplate == InitTemplate /\ [][NextTemplate]_vars

---------------------------------------------------------------------------
(* Properties of the templates *)

\* C17: substitute of a template (input statement, figure, code, with and
\* without short caption) leaves the caller's mapping as it was passed,
\* same keys and same values, and touches no file.
C17_SubstituteKeepsMapping ==
    op = "substitute" =>
        /\ fig_desc = args.mapping
        /\ files = args.files
        /\ dirs = args.dirs

\* the part of C17 that holds: no file is touched
SubstituteKeepsDisk ==
    op = "substitute" => (files = args.files /\ dirs = args.dirs)

\* a pair caption was passed to a template with short caption
PairSubstituted ==
    /\ op = "substitute"
    /\ args.short
    /\ err = ""
    /\ ~HasKey(fig_desc, "caption")
    /\ DictGet(fig_desc, "path").t = "str"

\* the thesis directory has a part named "chapters"
ChaptersInRoot == \E i \in 1..Len(thesis_dir) : EqChapters(thesis_dir[i])

\* C19: for a file under <thesis root>/chapters, whatever the thesis root,
\* the input statement embeds the path from the chapters directory of the
\* thesis on: resolved against the thesis root it denotes the same file.
C19_InputPathFromThesisChapters ==
    (op = "substitute" /\ args.kind = "input" /\ err = "") =>
        thesis_dir \o find_input(rendered)[1] = DictGet(args.mapping, "path").v

\* the part of C19 that holds: a thesis root without a part "chapters"
PlainRootInputPath ==
    (op = "substitute" /\ args.kind = "input" /\ err = "" /\ ~ChaptersInRoot)
        => thesis_dir \o find_input(rendered)[1]
               = DictGet(args.mapping, "path").v

\* an input statement was made under a root with a part "chapters"
ChaptersRootSubstituted ==
    /\ op = "substitute"
    /\ args.kind = "input"
    /\ ChaptersInRoot
    /\ find_input(rendered)[1][1] = <<"chapters">>
    /\ thesis_dir \o find_input(rendered)[1] # DictGet(args.mapping, "path").v

---------------------------------------------------------------------------
(* Properties of the fragments save_fig writes *)

\* the caption the last save_fig call was given
LastCaption == DictGet(args.desc, "caption")

\* the fragment the last save_fig call wrote
LastFragment == files[child_filename_tex(LastChapter)]

\* C18: the fragment save_fig writes has \caption{text} when the caption of
\* the description is a single string and \caption[short]{long} when it is
\* a pair (long, short): first element long, second short.
C18_CaptionVariant ==
    (op = "save_fig" /\ err = "") =>
        /\ LastCaption.t = "str" =>
              Contains(LastFragment,
                       <<"\t\\caption{">> \o LastCaption.v[1] \o <<"}">>)
        /\ LastCaption.t = "tuple" =>
              Contains(LastFragment,
                       <<"\t\\caption[">> \o LastCaption.v[2] \o <<"]{">>
                       \o LastCaption.v[1] \o <<"}">>)
        /\ LastCaption.t \in {"str", "tuple"}

C18_Witness ==
    /\ op = "save_fig"
    /\ err = ""
    /\ LastCaption = TupleV(<<"A long caption">>, <<"short">>)
    /\ Contains(LastFragment,
                <<"\t\\caption[", "short", "]{", "A long caption", "}">>)
    /\ args.kind = PLOTLY

---------------------------------------------------------------------------
(* Properties of the goal directory *)

\* the units a location string names: its lines, lower-cased and without
\* spaces, the empty ones left out
UnitNames(location) ==
    SelectSeq(Split(NoSpaces(Lower(location)), "\n"), LAMBDA x : Len(x) > 0)

\* the directory the scaffolder lays out for a chapter, a section of it or
\* a subsection of that
UnitDir(root, names) ==
    chapter_dir(root) \o <<names[1]>>
    \o (IF Len(names) >= 2 THEN << <<"sections">>, names[2] >> ELSE <<>>)
    \o (IF Len(names) >= 3 THEN << <<"subsections">>, names[3] >> ELSE <<>>)

\* a location string ends in a newline
TrailingNewline(location) == location[Len(location)] = "\n"

\* C20: the goal directory of a publication is the directory of the unit
\* the location string names, chapters/<chapter>[/sections/<section>
\* [/subsections/<subsection>]], which holds that unit's .tex file; so for
\* "chapter\nsection", "chapter\nsection\nsubsection" and "chapter\n".
C20_GoalDirIsUnitDir ==
    op = "save_fig" =>
        LET names == UnitNames(args.location)
            unit == UnitDir(thesis_dir, names)
        IN  /\ construct_path(LastChapter) = unit
            /\ Append(unit, names[Len(names)] \o TEX_FILE) \in DOMAIN files

\* the part of C20 that holds: locations without a trailing newline
NoNewlineGoalDirIsUnitDir ==
    (op = "save_fig" /\ ~TrailingNewline(args.location)) =>
        C20_GoalDirIsUnitDir

\* a publication to "chapter1\n": the goal directory is chapter1/sections
TrailingNewlinePublished ==
    /\ op = "save_fig"
    /\ TrailingNewline(args.location)
    /\ construct_path(LastChapter)
          = chapter_dir(thesis_dir) \o << <<"chapter", "1">>, <<"sections">> >>
    /\ err = "IndexError"

---------------------------------------------------------------------------
(* Properties of the dispatch on the type of the figure *)

\* the last call was save_fig with a figure that is neither a matplotlib
\* figure nor a plotly figure
UnknownArtifact ==
    /\ op = "save_fig"
    /\ args.kind \notin {MATPLOTLIB, PLOTLY}

\* C21: save_fig with a figure of neither backend fails with a TypeError
\* before the image, the fragment or the parent file is written: no file
\* is created or modified.
C21_UnknownArtifactWritesNothing ==
    UnknownArtifact => (err = "TypeError" /\ pc = "failed" /\ files = args.files)

\* a figure of neither backend was handed to save_fig for a location whose
\* parent file exists, and the parent file is as it was
C21_Witness ==
    /\ UnknownArtifact
    /\ err = "TypeError"
    /\ GlobTex(dirs, files, construct_path(LastChapter)) # {}
    /\ \A parent \in GlobTex(dirs, files, construct_path(LastChapter)) :
           files[parent] = args.files[parent]
    /\ child_filename(LastChapter) \notin DOMAIN files

\* the last call was save_fig with a plotly figure
PlotlyArtifact ==
    /\ op = "save_fig"
    /\ args.kind = PLOTLY

\* C22: for a plotly figure a missing Kaleido makes save_fig fall back to
\* write_image, and a missing module is fatal only on that fallback: with
\* Kaleido available, publishing in eps format does not fail because
\* poppler is missing.
C22_KaleidoNeedsNoPoppler ==
    (PlotlyArtifact /\ args.env.kaleido) => err # "ModuleNotFoundError"

\* the part of C22 that holds: without Kaleido the image is the one
\* write_image writes, unless the format is eps and poppler is missing
FallbackWritesImage ==
    (PlotlyArtifact /\ ~args.env.kaleido /\ ~args.repeat
        /\ (LastChapter.fmt # <<"eps">> \/ args.env.poppler))
    => /\ err # "ModuleNotFoundError"
       /\ child_filename(LastChapter) \in DOMAIN files
       /\ child_filename(LastChapter) # child_filename_tex(LastChapter)
            => files[child_filename(LastChapter)]
                   = Image("write_image", LastChapter.fmt)

\* Kaleido is available, the format is eps, poppler is missing
KaleidoEpsNoPoppler ==
    /\ PlotlyArtifact
    /\ args.env.kaleido
    /\ ~args.env.poppler
    /\ LastChapter.fmt = <<"eps">>
    /\ err = "ModuleNotFoundError"
    /\ files = args.files

---------------------------------------------------------------------------
(* Properties of the default of arraystretch *)

\* the Chapter object of the last save_tab call
LastTable ==
    NewChapter(TableFilename, chapter_dir(thesis_dir), args.location, <<"tabs">>)

\* the line of the table file that sets arraystretch to the default
DefaultStretch ==
    <<"\\renewcommand{\\arraystretch}{">> \o StrOf(ARRAYSTRETCH) \o <<"}", "\n">>

\* the last call was save_tab for a location with a parent file, with a
\* latex_args that has no arraystretch and no column type
NoStretchGiven ==
    /\ op = "save_tab"
    /\ GlobTex(args.dirs, args.files, construct_path(LastTable)) # {}
    /\ ~HasKey(args.latex_args, "arraystretch")
    /\ ~HasKey(args.latex_args, "column_type")

\* the table file was written with the default arraystretch
DefaultStretchWritten ==
    /\ err = ""
    /\ child_filename(LastTable) \in DOMAIN files
    /\ Occurrences(files[child_filename(LastTable)], DefaultStretch) = 1

\* C23: save_tab uses the default arraystretch 1.8 whenever the caller gives
\* no arraystretch, also when latex_args has only column_type and/or
\* top_caption: the table is written with \renewcommand{\arraystretch}{1.8}
\* and the call succeeds.
C23_DefaultStretchWhenNoneGiven ==
    NoStretchGiven => DefaultStretchWritten

\* the part of C23 that holds: an empty latex_args gets the default
EmptyArgsDefaultStretch ==
    (NoStretchGiven /\ args.latex_args = <<>>) => DefaultStretchWritten

EmptyArgsPublished ==
    /\ NoStretchGiven
    /\ args.latex_args = <<>>
    /\ DefaultStretchWritten

\* latex_args has only top_caption, and the fill of the template fails
OnlyTopCaptionFails ==
    /\ NoStretchGiven
    /\ ~args.repeat
    /\ args.latex_args = << <<"top_caption", BoolV(TRUE)>> >>
    /\ err = "KeyError"
    /\ child_filename(LastTable) \notin DOMAIN files

---------------------------------------------------------------------------
(* dir_structure.py: two Chapter.update calls on one parent file, each a   *)
(* read of the file followed by a write at the position the read ended at. *)
(* The statements written here have the same number of characters, so a    *)
(* position counted in tokens is a position counted in characters.         *)

Procs == {1, 2}

\* file.read() on the file opened with mode "r+": the text read and the
\* position of the file object afterwards
update_read(f, parent) ==
    [temp |-> f[parent], position |-> Len(f[parent])]

\* file.write(string_) at a position of a file with the text temp
WriteAt(temp, position, string_) ==
    SubSeq(temp, 1, position) \o string_
    \o SubSeq(temp, position + Len(string_) + 1, Len(temp))

\* as update_write, but the statement is written at the end of the file as
\* it is when the write happens
update_write_append(f, parent, child, l) ==
    IF Contains(l.temp, InputTemplate(child)) THEN f
    ELSE WriteText(f, parent, f[parent] \o InputTemplate(child))

\* the rest of update after the read l: the statement is written unless
\* the text read has it
update_write(f, parent, child, l) ==
    IF Contains(l.temp, InputTemplate(child)) THEN f
    ELSE WriteText(f, parent,
                   WriteAt(f[parent], l.position, InputTemplate(child)))

\* the fragments save_fig would link from the parent of a location
Fragments(root, location) ==
    { child_filename_tex(NewChapter(fn, chapter_dir(root), location, <<"figs">>)) :
        fn \in Filenames }

\* the parent files of the scaffolded tree
ParentFiles(root) ==
    UNION { GlobTex(Scaffolded(root).dirs, Scaffolded(root).files,
                    construct_path(NewChapter(<<>>, chapter_dir(root), location,
                                              <<"figs">>))) :
            location \in Locations }

\* two update calls are about to open the same parent, each with its child;
\* the parent may already link the child of the first call
InitUpd ==
    /\ thesis_dir \in Roots
    /\ dirs = Scaffolded(thesis_dir).dirs
    /\ \E parent \in ParentFiles(thesis_dir), location \in Locations :
       \E c1 \in Fragments(thesis_dir, location),
          c2 \in Fragments(thesis_dir, location), linked \in BOOLEAN :
          /\ files = IF linked
                     THEN update(Scaffolded(thesis_dir).files, parent, c1)
                     ELSE Scaffolded(thesis_dir).files
          /\ args = [parent |-> parent, child |-> <<c1, c2>>,
                     text |-> files[parent]]
    /\ counter = 0
    /\ op = "update"
    /\ pc = [p \in Procs |-> "open"]
    /\ err = ""
    /\ chapter = Scaffolded(thesis_dir).chapter
    /\ sections = Scaffolded(thesis_dir).sections
    /\ subsections = Scaffolded(thesis_dir).subsections
    /\ L = [p \in Procs |-> [temp |-> <<>>, position |-> 0]]
    /\ fig_desc = <<>>
    /\ latex_args = <<>>
    /\ latex_default = <<>>
    /\ rendered = <<>>

\* lines 502-505: call p opens the parent and reads it
UpdateRead(p) ==
    /\ pc[p] = "open"
    /\ L' = [L EXCEPT ![p] = update_read(files, args.parent)]
    /\ pc' = [pc EXCEPT ![p] = "read"]
    /\ UNCHANGED <<thesis_dir, dirs, files, counter, op, err, chapter,
                   sections, subsections, args, pubVars>>

\* lines 506-512: call p writes its statement unless it read it, and closes
UpdateWrite(p) ==
    /\ pc[p] = "read"
    /\ files' = update_write(files, args.parent, args.child[p], L[p])
    /\ pc' = [pc EXCEPT ![p] = "done"]
    /\ UNCHANGED <<thesis_dir, dirs, counter, op, err, chapter, sections,
                   subsections, L, args, pubVars>>

NextUpd == \E p \in Procs : UpdateRead(p) \/ UpdateWrite(p)

SpecUpd == InitUpd /\ [][NextUpd]_vars

\* both calls are done, for two different children that the parent did not
\* link, and both had read the parent before either wrote
BothReadFirst ==
    /\ op = "update"
    /\ \A p \in Procs : pc[p] = "done" /\ L[p].temp = args.text
    /\ args.child[1] # args.child[2]
    /\ \A p \in Procs : ~Contains(args.text, InputTemplate(args.child[p]))

\* C24: there is an interleaving of two update calls on the same parent
\* with two different children, both reading before either writes, after
\* which the parent does not contain both \input statements: every such
\* interleaving ends so, and one exists.
C24_ConcurrentUpdateLosesInput ==
    BothReadFirst =>
        \E p \in Procs :
            ~Contains(files[args.parent], InputTemplate(args.child[p]))

C24_Witness ==
    /\ BothReadFirst
    /\ ~Contains(files[args.parent], InputTemplate(args.child[1]))
    /\ Contains(files[args.parent], InputTemplate(args.child[2]))

\* a call that reads and writes without another call in between does what
\* update does in one step
UpdateIsReadThenWrite ==
    op = "update" =>
        \A p \in Procs :
            update_write(files, args.parent, args.child[p],
                         update_read(files, args.parent))
                = update(files, args.parent, args.child[p])

---------------------------------------------------------------------------
(* Properties of the records the caller passes to init_chapter_dir *)

\* a record without the fields init_chapter_dir reads and removes
Without(rec, keys) == SelectSeq(rec, LAMBDA kv : kv[1] \notin keys)

ChapterRead(rec) == Without(rec, {"chapter", "num_sections"})

SectionRead(rec) == Without(rec, {"section", "num_subsections"})

SubsectionRead(rec) == Without(rec, {"subsection"})

\* the i-th section record has been read by the running or the last call
SectionProcessed(i) == i < L.i \/ (i = L.i /\ pc # "section")

\* the subsection records under key k have all been read by the last call
SubsectionsProcessed(k) ==
    \E i \in 1..Len(args.sections) :
        /\ Str(PopValue(args.sections[i], "section", 10)) = k
        /\ PopValue(args.sections[i], "num_subsections", 10) # 0

\* C25: init_chapter_dir consumes the records it is given: the chapter
\* record loses "chapter" and "num_sections", also when the call fails;
\* every section record that is processed loses "section" and
\* "num_subsections", every subsection record that is processed loses
\* "subsection"; the figs/tabs/code fields stay as they are.
C25_RecordsConsumed ==
    (op = "init_chapter_dir" /\ pc # "idle") =>
        /\ chapter = ChapterRead(args.chapter)
        /\ Len(sections) = Len(args.sections)
        /\ \A i \in 1..Len(sections) :
               sections[i] = IF SectionProcessed(i)
                             THEN SectionRead(args.sections[i])
                             ELSE args.sections[i]
        /\ DOMAIN subsections = DOMAIN args.subsections
        /\ \A k \in DOMAIN subsections :
               /\ Len(subsections[k]) = Len(args.subsections[k])
               /\ \A j \in 1..Len(subsections[k]) :
                      subsections[k][j] \in {args.subsections[k][j],
                                             SubsectionRead(args.subsections[k][j])}
               /\ (pc = "done" /\ SubsectionsProcessed(k)) =>
                      \A j \in 1..Len(subsections[k]) :
                          subsections[k][j] = SubsectionRead(args.subsections[k][j])

\* a call has ended that read a chapter, a section and a subsection record
C25_Witness ==
    /\ op = "init_chapter_dir"
    /\ pc = "done"
    /\ HasKey(args.chapter, "chapter") /\ ~HasKey(chapter, "chapter")
    /\ \E i \in 1..Len(sections) :
           HasKey(args.sections[i], "section") /\ ~HasKey(sections[i], "section")
    /\ \E k \in DOMAIN subsections : \E j \in 1..Len(subsections[k]) :
           /\ HasKey(args.subsections[k][j], "subsection")
           /\ ~HasKey(subsections[k][j], "subsection")

\* a call has failed on the number of sections, and the chapter record has
\* lost its two fields
FailedCallConsumed ==
    /\ op = "init_chapter_dir"
    /\ pc = "failed"
    /\ err = "AssertionError"
    /\ L.i = 0
    /\ HasKey(args.chapter, "num_sections")
    /\ chapter = ChapterRead(args.chapter)
    /\ chapter # args.chapter

---------------------------------------------------------------------------
(* Properties of a call that fails on the number of subsections *)

\* the name init_chapter_dir gives the directory of a section record
SectionName(rec) == <<FirstKey(rec)>> \o Str(PopValue(rec, "section", 10))

SubsectionName(rec) == <<FirstKey(rec)>> \o Str(PopValue(rec, "subsection", 10))

\* the last call failed on the number of subsections of its section L.i
SubsectionMismatch ==
    /\ op = "init_chapter_dir"
    /\ pc = "failed"
    /\ err = "AssertionError"
    /\ L.i >= 1

\* the section file of the i-th section passed, and the files of its
\* subsections
SectionFiles(i) ==
    LET rec == args.sections[i]
        dir == Append(sec_path(Frame), SectionName(rec))
        key == Str(PopValue(rec, "section", 10))
    IN  { Append(dir, SectionName(rec) \o TEX_FILE) }
        \cup IF PopValue(rec, "num_subsections", 10) = 0 THEN {}
             ELSE { dir \o << <<"subsections">>, SubsectionName(sub),
                              SubsectionName(sub) \o TEX_FILE >> :
                    sub \in { args.subsections[key][j] :
                              j \in 1..Len(args.subsections[key]) } }

\* the calls for the same chapter record with as many sections as it names
RunAgain ==
    { RunInit([Frame EXCEPT !.chapter = args.chapter, !.sections = secs,
                            !.subsections = subs, !.L = NoLocals,
                            !.pc = "start", !.err = ""]) :
        secs \in { s \in SectionLists :
                     Len(s) = PopValue(args.chapter, "num_sections", 0) },
        subs \in SubsectionMaps }

\* C26: a mismatch of the number of subsections is detected only when its
\* section is reached: the call fails after the chapter directory, its
\* sections folder and all files of the earlier sections were created and
\* before the chapter file is written; a later call for the same chapter
\* fails because the chapter directory already exists.
C26_LateSubsectionMismatch ==
    SubsectionMismatch =>
        /\ chapter_path(Frame) \in dirs
        /\ sec_path(Frame) \in dirs
        /\ \A i \in 1..(L.i - 1) : SectionFiles(i) \subseteq DOMAIN files
        /\ chapter_file(Frame) \notin DOMAIN files
        /\ \A G \in RunAgain : G.pc = "failed" /\ G.err = "FileExistsError"

\* the second section has a wrong number of subsections; the first section
\* and its subsection have their files
C26_Witness ==
    /\ SubsectionMismatch
    /\ L.i = 2
    /\ PopValue(args.sections[1], "num_subsections", 10) # 0
    /\ Cardinality(SectionFiles(1)) = 2
    /\ SectionFiles(1) \subseteq DOMAIN files
    /\ chapter_file(Frame) \notin DOMAIN files

---------------------------------------------------------------------------
(* The scaffolder called with records whose identifier is not the first    *)
(* field, and called again with the records an earlier call has consumed   *)

\* the first call, with records of any field order
CallNamed ==
    /\ pc = "idle"
    /\ \E ch \in NamedChapterRecs, secs \in NamedSectionLists,
         subs \in NamedSubsectionMaps :
          Enter(ch, secs, subs)

NextNames ==
    \/ CallNamed
    \/ CallConsumed
    \/ CreateSubfolder
    \/ SectionStep
    \/ SubsectionStep
    \/ SectionFileStep
    \/ ChapterFileStep

SpecNames == Init /\ [][NextNames]_vars

\* the first field's key followed by the value of the identifier field, or
\* by 10 without such a field
LevelName(rec, field) ==
    <<rec[1][1]>> \o
    Str(IF \E i \in 1..Len(rec) : rec[i][1] = field
        THEN rec[CHOOSE i \in 1..Len(rec) : rec[i][1] = field][2] ELSE 10)

\* directory dir / name with the file name.tex in it
HasUnit(dir, name) ==
    /\ Append(dir, name) \in dirs
    /\ Append(Append(dir, name), name \o TEX_FILE) \in DOMAIN files

\* the i-th section of the last call has been scaffolded with its file
SectionDone(i) == i < L.i \/ (i = L.i /\ pc \in {"chapter_file", "done"})

\* an earlier section of the last call has read the subsection records
\* under the key of section i
ReadBefore(i) ==
    \E m \in 1..(i - 1) :
        /\ LevelName(args.sections[m], "section")[2]
             = LevelName(args.sections[i], "section")[2]
        /\ PopValue(args.sections[m], "num_subsections", 10) # 0

\* C27: the directory and file name of each scaffolded level is the first
\* key of its record followed by the identifier read from the "chapter",
\* "section" or "subsection" field (10 without the field): it is chapter<N>
\* only when the identifier field is the first field, and a record already
\* consumed gets a name from its first remaining key and 10.
C27_NameFromFirstKey ==
    (op = "init_chapter_dir" /\ pc # "idle" /\ Len(args.chapter) > 0) =>
        /\ L.chapter_ = LevelName(args.chapter, "chapter")
        /\ (L.chapter_[1] = "chapter") <=> (args.chapter[1][1] = "chapter")
        /\ pc = "done" => HasUnit(chapter_dir(thesis_dir), L.chapter_)
        /\ pc \in {"subsection", "section_file"} =>
               L.sec_ = LevelName(args.sections[L.i], "section")
        /\ \A i \in 1..Len(args.sections) :
               SectionDone(i) =>
                   /\ HasUnit(sec_path(Frame),
                              LevelName(args.sections[i], "section"))
                   /\ PopValue(args.sections[i], "num_subsections", 10) # 0 =>
                        LET key == <<LevelName(args.sections[i], "section")[2]>>
                        IN  \A j \in 1..Len(args.subsections[key]) :
                              HasUnit(Append(sec_path(Frame),
                                             LevelName(args.sections[i], "section"))
                                        \o << <<"subsections">> >>,
                                      LevelName(
                                        IF ReadBefore(i)
                                        THEN SubsectionRead(args.subsections[key][j])
                                        ELSE args.subsections[key][j],
                                        "subsection"))

\* a chapter whose record has the identifier in second place was scaffolded
C27_Witness ==
    /\ op = "init_chapter_dir"
    /\ pc = "done"
    /\ args.chapter[1][1] = "num_sections"
    /\ args.chapter[2][1] = "chapter"
    /\ L.chapter_ = <<"num_sections", "1">>
    /\ HasUnit(chapter_dir(thesis_dir), <<"num_sections", "1">>)

\* a consumed chapter record was passed again and gave a chapter figs10
ConsumedRecordScaffolded ==
    /\ op = "init_chapter_dir"
    /\ pc = "done"
    /\ ~HasKey(args.chapter, "chapter")
    /\ HasUnit(chapter_dir(thesis_dir), <<"figs", "10">>)

\* two sections with the same identifier: the second pass over their
\* subsection records names a subsection from a consumed record
ConsumedSubsectionScaffolded ==
    /\ op = "init_chapter_dir"
    /\ pc = "done"
    /\ \E i \in 1..Len(args.sections) :
          /\ ReadBefore(i)
          /\ PopValue(args.sections[i], "num_subsections", 10) # 0
          /\ HasUnit(Append(sec_path(Frame),
                            LevelName(args.sections[i], "section"))
                       \o << <<"subsections">> >>, <<"figs", "10">>)

---------------------------------------------------------------------------
(* Sequences of publications of figures and tables into the scaffolded    *)
(* tree, with scans of the thesis directory in between                    *)

MaxPublications == 2

PubFilenames == { <<"plot", ".", "png">>, <<"plot", ".", "PNG">> }

PubFigDescs == { d \in FigDescs : HasKey(d, "caption") }

PubLatexArgs == { <<>>, << <<"top_caption", BoolV(TRUE)>> >> }

InitPub ==
    /\ thesis_dir \in Roots
    /\ dirs = Scaffolded(thesis_dir).dirs
    /\ files = Scaffolded(thesis_dir).files
    /\ counter = 0
    /\ op = "init_chapter_dir"
    /\ pc = "done"
    /\ err = ""
    /\ chapter = Scaffolded(thesis_dir).chapter
    /\ sections = Scaffolded(thesis_dir).sections
    /\ subsections = Scaffolded(thesis_dir).subsections
    /\ L = Scaffolded(thesis_dir).L
    /\ args = [n |-> 0, figs |-> 0, tabs |-> 0]
    /\ fig_desc = <<>>
    /\ latex_args = <<>>
    /\ latex_default = <<>>
    /\ rendered = <<>>

\* Chapter(filename, thesis_dir / "chapters", location, "figs")
\*     .save_fig(fig, desc) with a matplotlib figure
PublishFig ==
    /\ args.n < MaxPublications
    /\ \E filename \in PubFilenames, location \in Locations,
         desc \in PubFigDescs :
          LET self == NewChapter(filename, chapter_dir(thesis_dir), location,
                                 <<"figs">>)
              R == SaveFigure(dirs, files, self, MATPLOTLIB,
                              [kaleido |-> FALSE, poppler |-> FALSE], desc)
          IN  \E parent \in Parents(R, self) :
              \E G \in {LinkBack(R, parent, child_filename_tex(self))} :
                  /\ dirs' = G.dirs
                  /\ files' = G.files
                  /\ fig_desc' = G.desc
                  /\ err' = G.err
                  /\ pc' = IF G.err = "" THEN "done" ELSE "failed"
                  /\ args' = [args EXCEPT !.n = @ + 1,
                                !.figs = @ + (IF G.err = "" THEN 1 ELSE 0)]
    /\ op' = "save_fig"
    /\ UNCHANGED <<thesis_dir, counter, chapter, sections, subsections, L,
                   latex_args, latex_default, rendered>>

\* Chapter(TableFilename, thesis_dir / "chapters", location, "tabs")
\*     .save_tab(data, data_desc, latex_args=la) for a frame of two columns
PublishTab ==
    /\ args.n < MaxPublications
    /\ \E location \in Locations, la \in PubLatexArgs :
          LET self == NewChapter(TableFilename, chapter_dir(thesis_dir),
                                 location, <<"tabs">>)
              R == SaveTable(dirs, files, self, 2, la)
          IN  \E parent \in Parents(R, self) :
              \E G \in {LinkBack(R, parent, child_filename(self))} :
                  /\ dirs' = G.dirs
                  /\ files' = G.files
                  /\ latex_args' = G.desc
                  /\ err' = G.err
                  /\ pc' = IF G.err = "" THEN "done" ELSE "failed"
                  /\ args' = [args EXCEPT !.n = @ + 1,
                                !.tabs = @ + (IF G.err = "" THEN 1 ELSE 0)]
    /\ op' = "save_tab"
    /\ UNCHANGED <<thesis_dir, counter, chapter, sections, subsections, L,
                   fig_desc, latex_default, rendered>>

NextPub == PublishFig \/ PublishTab \/ CheckInputs

SpecPub == InitPub /\ [][NextPub]_vars

\* the chapter, section and subsection directories of the scaffolded tree
UnitDirs == { UnitDir(thesis_dir, UnitNames(location)) : location \in Locations }

\* the file the scaffolder wrote for a unit directory
UnitFile(unit) == Append(unit, unit[Len(unit)] \o TEX_FILE)

\* C28: after any sequence of save_fig and save_tab publications into
\* locations of a scaffolded tree, each chapter, section and subsection
\* directory has exactly one .tex file directly in it, the unit's own file,
\* and check_inputs over the thesis directory counts no broken reference.
C28_PublishingKeepsTree ==
    /\ \A unit \in UnitDirs : GlobTex(dirs, files, unit) = {UnitFile(unit)}
    /\ check_inputs(dirs, files, thesis_dir, thesis_dir) = 0
    /\ counter = 0

\* a figure and a table were published, the chapter file links a fragment,
\* and the scan that followed counted nothing
C28_Witness ==
    /\ op = "check_inputs"
    /\ args.figs >= 1
    /\ args.tabs >= 1
    /\ \E unit \in UnitDirs :
          Len(find_input(files[UnitFile(unit)]))
              > Len(find_input(Scaffolded(thesis_dir).files[UnitFile(unit)]))
    /\ counter = 0

---------------------------------------------------------------------------
(* Chapter._rewrite_table as a function of the text it is given *)

MaxLines == 7

\* the lines a text is made of
LineTexts == { <<>>, <<"a">>, <<"b", "c">> }

Texts == UNION { [1..n -> LineTexts] : n \in 1..MaxLines }

\* the values of column_type that stand for no column type
NoColumnTypes == { NoneV, StrV(<<>>), ListV(<<>>) }

\* the text, the column type and top_caption of the call to come
InitRewrite ==
    /\ thesis_dir \in { << <<"tests">>, <<"data">> >> }
    /\ dirs = Prefixes(thesis_dir)
    /\ files = <<>>
    /\ counter = 0
    /\ op = ""
    /\ pc = "idle"
    /\ err = ""
    /\ chapter = <<>>
    /\ sections = <<>>
    /\ subsections = <<>>
    /\ L = NoLocals
    /\ \E lines \in Texts, column_type \in NoColumnTypes, top_caption \in BOOLEAN :
          args = [data |-> JoinNewline(lines), num_data |-> 2,
                  column_type |-> column_type,
                  top_caption |-> BoolV(top_caption)]
    /\ fig_desc = <<>>
    /\ latex_args = <<>>
    /\ latex_default = <<>>
    /\ rendered = <<>>

\* self._rewrite_table(data, num_data, column_type, top_caption)
Rewrite ==
    /\ pc = "idle"
    /\ \E R \in {rewrite_table(args.data, args.num_data, args.column_type,
                               args.top_caption)} :
          /\ rendered' = IF R.err = "" THEN R.data ELSE rendered
          /\ err' = R.err
          /\ pc' = IF R.err = "" THEN "done" ELSE "failed"
    /\ op' = "_rewrite_table"
    /\ UNCHANGED <<thesis_dir, dirs, files, counter, chapter, sections,
                   subsections, L, args, fig_desc, latex_args, latex_default>>

NextRewrite == Rewrite

SpecRewrite == InitRewrite /\ [][NextRewrite]_vars

\* seq without its elements at the positions i and i + 1
DropTwo(seq, i) == SubSeq(seq, 1, i - 1) \o SubSeq(seq, i + 2, Len(seq))

\* the lines of the text passed and of the text returned
InLines == Split(args.data, "\n")
OutLines == Split(rendered, "\n")

\* C29: with top_caption false and no column type, _rewrite_table returns
\* the lines of a text that has a 3rd and a 4th line in a new order: the
\* 3rd and the 4th line come, in that order, right before the last two
\* lines of the text returned, the other lines keep their order.  With
\* top_caption true and no column type the text is returned unchanged.
C29_CaptionMovedToBottom ==
    op = "_rewrite_table" =>
        IF Truthy(args.top_caption)
        THEN err = "" /\ rendered = args.data
        ELSE Len(InLines) >= 4 =>
               /\ err = ""
               /\ Len(OutLines) = Len(InLines)
               /\ OutLines[Len(OutLines) - 3] = InLines[3]
               /\ OutLines[Len(OutLines) - 2] = InLines[4]
               /\ DropTwo(OutLines, Len(OutLines) - 3) = DropTwo(InLines, 3)

\* a text of seven lines had its 3rd and 4th line moved behind its 5th
C29_Witness ==
    /\ op = "_rewrite_table"
    /\ ~Truthy(args.top_caption)
    /\ Len(InLines) >= 7
    /\ InLines[3] # InLines[4]
    /\ InLines[4] # InLines[5]
    /\ rendered # args.data
    /\ OutLines[3] = InLines[5]
    /\ err = ""

\* a text of fewer than four lines has no 4th line to move
ShortTextFails ==
    (op = "_rewrite_table" /\ ~Truthy(args.top_caption) /\ Len(InLines) < 4)
        => err = "IndexError"

---------------------------------------------------------------------------
(* Properties of safe_substitute and of create_subfolder *)

\* safe_substitute of a figure or code template changes the caller's
\* mapping as substitute does and leaves the placeholder of a field the
\* mapping lacks in the text
SafeSubstituteKeepsPlaceholder ==
    (op = "safe_substitute" /\ args.kind # "input") =>
        /\ err = ""
        /\ fig_desc = substitute(args.kind, args.short, args.mapping).mapping
        /\ HasKey(args.mapping, "label") =>
               rendered = substitute(args.kind, args.short, args.mapping).text
        /\ ~HasKey(args.mapping, "label") =>
               Occurrences(rendered, <<"$", "label">>) = 1

\* safe_substitute of an input template is the one of string.Template:
\* the mapping stays, the path is written in full
SafeInputKeepsMapping ==
    (op = "safe_substitute" /\ args.kind = "input") =>
        /\ fig_desc = args.mapping
        /\ rendered = <<"\n", "\\input{">>
                      \o StrPath(DictGet(args.mapping, "path").v) \o <<"}", "\n">>

SafeSubstituteWithoutLabel ==
    /\ op = "safe_substitute"
    /\ args.kind = "figure"
    /\ ~HasKey(args.mapping, "label")
    /\ err = ""
    /\ Occurrences(rendered, <<"$", "label">>) = 1
    /\ fig_desc # args.mapping

\* create_subfolder touches no file or directory and takes the first field
\* and "num_sections" from the record
SubfolderPopsRecord ==
    op = "create_subfolder" =>
        /\ dirs = args.dirs
        /\ files = args.files
        /\ Len(args.chapter) > 0 =>
               /\ err = ""
               /\ chapter = SelectSeq(args.chapter,
                     LAMBDA kv : kv[1] \notin {args.chapter[1][1], "num_sections"})

\* a record popped by create_subfolder alone was scaffolded as chapter figs10
PoppedRecordScaffolded ==
    /\ op = "init_chapter_dir"
    /\ pc = "done"
    /\ args.chapter = Ftc(1, 0, 1)
    /\ Len(args.sections) = 0
    /\ HasUnit(chapter_dir(thesis_dir), <<"figs", "10">>)
    /\ ~(Append(chapter_dir(thesis_dir), <<"chapter", "1">>) \in dirs)

====
